---- MODULE Spec2Model ----
(***************************************************************************)
(* Model of the two numeric kernels of sdg11-transit-access: the equity    *)
(* kernel (src/src/pt_access/gini.py, class GiniCalculator) and the        *)
(* coordinate kernel (src/src/pt_access/coordinate.py, class               *)
(* CoordinateConverter, with DataValidator.validate_coordinate of          *)
(* utils.py).                                                              *)
(*                                                                         *)
(* A table `data` of analysis units goes through the three steps that      *)
(* generate_gini_report composes: calculate_basic_stats, then              *)
(* prepare_gini_data, then calculate_gini_coefficient.  Python floats are  *)
(* modelled as exact rationals [num, den] in lowest terms; populations are *)
(* integer-valued.  A table cell is either a text of decimal digits (what  *)
(* csv.reader yields) or a number (what a caller passing a list of lists   *)
(* may supply), because the code tests some cells as text (row[6] != '0')  *)
(* and others after int().                                                 *)
(***************************************************************************)
EXTENDS Integers, Sequences, FiniteSets, TLC

VARIABLES
    data,              \* the input table: a sequence of rows (gini.py:184-189)
    pc,                \* position in generate_gini_report: "stats", "prepare", "gini", "done", "raised"
    basic_stats,       \* result of calculate_basic_stats (gini.py:192)
    summary_table,     \* result of prepare_gini_data (gini.py:195)
    gini_coefficient,  \* first component of calculate_gini_coefficient's result (gini.py:198)
    gini_results,      \* second component: the detail dictionary (gini.py:198)
    report_call,       \* generate_gini_report's arguments and the lines of the input file (gini.py:172)
    storage,           \* the files generate_gini_report has opened: [read, written] (gini.py:185, 264)
    class_attrs,       \* the attributes PI, A, EE of class CoordinateConverter (coordinate.py:22-24)
    calls,             \* the calls made on the coordinate API so far, with their outcomes
    args,              \* the command line of scripts/coordinate_conversion.py: [source_crs]
    script_pc,         \* position in the script: "parse", "loop", "assign", "done", "exit"
    df,                \* the rows of the input frame: pairs <<lng cell, lat cell>> (coordinate.py:140-145)
    idx,               \* number of rows the loop has gone through (coordinate.py:160)
    wgs84_coords,      \* the list of converted pairs (coordinate.py:157)
    converted_count,   \* the success counter (coordinate.py:158)
    columns,           \* the output columns wgs84_lng, wgs84_lat (coordinate.py:174-175)
    files,             \* the file system: for each path the lines of the file, or no file
    np_printoptions,   \* numpy's process-wide print options (gini.py:22)
    site,              \* the web site as the crawler's requests find it (crawlers.py:52, 88, 126)
    crawl_args,        \* the arguments of crawl_all_bus_stops: [city, output_file]
    crawl_pc,          \* position in crawl_all_bus_stops: "categories", "lines", "stops", "save", "done", "raised"
    categories,        \* the categories fetched (crawlers.py:162)
    cat_idx,           \* number of categories whose loop body has started (crawlers.py:169)
    bus_lines,         \* the lines of the current category (crawlers.py:173)
    line_idx,          \* number of lines of the current category gone through (crawlers.py:177)
    all_stops,         \* the stops collected (crawlers.py:165)
    line_count,        \* the lines processed (crawlers.py:166)
    requests           \* the line pages requested so far, in order (crawlers.py:126)

giniVars ==
    <<data, pc, basic_stats, summary_table, gini_coefficient, gini_results,
      report_call, storage>>
coordVars == <<class_attrs, calls>>
batchVars == <<args, script_pc, df, idx, wgs84_coords, converted_count, columns>>
envVars == <<files, np_printoptions>>
crawlVars ==
    <<site, crawl_args, crawl_pc, categories, cat_idx, bus_lines, line_idx,
      all_stops, line_count, requests>>
vars == <<giniVars, coordVars, batchVars, envVars, crawlVars>>

(***************************************************************************)
(* Bounds of the model.                                                    *)
(***************************************************************************)
MaxRows == 3    \* longest generic input table
MaxPop == 2     \* largest population of a generic unit
MaxLevel == 3   \* largest service level (gather count) of a generic unit
MaxMode == 1    \* largest per-mode stop count of a generic unit

(***************************************************************************)
(* Exact rationals standing for Python floats.                             *)
(***************************************************************************)
RECURSIVE GCD(_, _)
GCD(a, b) == IF b = 0 THEN a ELSE GCD(b, a % b)

Abs(x) == IF x < 0 THEN -x ELSE x

\* n/d in lowest terms with a positive denominator (d # 0).
Ratio(n, d) ==
    LET g == GCD(Abs(n), Abs(d))
        s == IF d < 0 THEN -1 ELSE 1
    IN  [num |-> s * (n \div g), den |-> s * (d \div g)]

Zero == [num |-> 0, den |-> 1]
One == [num |-> 1, den |-> 1]
RInt(n) == [num |-> n, den |-> 1]

RAdd(x, y) == Ratio(x.num * y.den + y.num * x.den, x.den * y.den)
RSub(x, y) == Ratio(x.num * y.den - y.num * x.den, x.den * y.den)
RDiv(x, y) == Ratio(x.num * y.den, x.den * y.num)       \* y # 0
RLeq(x, y) == x.num * y.den <= y.num * x.den
RLess(x, y) == x.num * y.den < y.num * x.den

\* round(x, 4): the nearest multiple of 1/10000, ties to even.  An integer
\* is its own rounding.
round4(x) ==
    LET whole == x.num \div x.den
        rest == x.num % x.den
        q == (rest * 10000) \div x.den
        r2 == 2 * ((rest * 10000) % x.den)
        up == r2 > x.den \/ (r2 = x.den /\ q % 2 = 1)
    IN  IF rest = 0 THEN x
        ELSE Ratio(whole * 10000 + (IF up THEN q + 1 ELSE q), 10000)

(***************************************************************************)
(* Table cells and rows.  A row of the source is a list indexed 0..6:      *)
(* fid, pointid, population, bus, railway, tram, gather; columns 0 and 1   *)
(* are never read.  population holds the value float(row[2]).              *)
(***************************************************************************)
Str(ds) == [kind |-> "str", v |-> ds]      \* the text whose characters are the digits ds
Num(n) == [kind |-> "num", v |-> <<n>>]    \* the number n

RECURSIVE ParseDigits(_)
ParseDigits(ds) ==
    IF ds = <<>> THEN 0
    ELSE 10 * ParseDigits(SubSeq(ds, 1, Len(ds) - 1)) + ds[Len(ds)]

\* int(cell): a text of digits is parsed in base ten, a number is itself.
int(cell) == IF cell.kind = "str" THEN ParseDigits(cell.v) ELSE cell.v[1]

\* cell != '0': true of every cell but the one-character text "0".
NotTextZero(cell) == cell # Str(<<0>>)

Row(population, bus, railway, tram, gather) ==
    [population |-> population, bus |-> bus, railway |-> railway,
     tram |-> tram, gather |-> gather]

(***************************************************************************)
(* calculate_basic_stats (gini.py:24-62).                                  *)
(***************************************************************************)
\* The six accumulators before the loop (gini.py:34-35).
StatsStart ==
    [popu_all |-> 0, popu_valid |-> 0, total_gather |-> 0,
     bus_count |-> 0, railway_count |-> 0, tram_count |-> 0]

\* One iteration of `for row in data` (gini.py:38-47).
StatsStep(acc, row) ==
    IF NotTextZero(row.gather)
    THEN [popu_all |-> acc.popu_all + row.population,
          popu_valid |-> acc.popu_valid + row.population,
          total_gather |-> acc.total_gather + int(row.gather),
          bus_count |-> acc.bus_count +
              (IF NotTextZero(row.bus) THEN int(row.bus) ELSE 0),
          railway_count |-> acc.railway_count +
              (IF NotTextZero(row.railway) THEN int(row.railway) ELSE 0),
          tram_count |-> acc.tram_count +
              (IF NotTextZero(row.tram) THEN int(row.tram) ELSE 0)]
    ELSE [acc EXCEPT !.popu_all = acc.popu_all + row.population]

\* The accumulators after the first n rows.
RECURSIVE StatsLoop(_, _)
StatsLoop(rows, n) ==
    IF n = 0 THEN StatsStart ELSE StatsStep(StatsLoop(rows, n - 1), rows[n])

\* x / y if y > 0 else 0 (gini.py:50-53).
GuardedRatio(x, y) == IF y > 0 THEN Ratio(x, y) ELSE Zero

calculate_basic_stats(rows) ==
    LET acc == StatsLoop(rows, Len(rows))
    IN  [total_population |-> round4(RInt(acc.popu_all)),
         valid_population |-> round4(RInt(acc.popu_valid)),
         population_ratio |-> round4(GuardedRatio(acc.popu_valid, acc.popu_all)),
         bus_ratio |-> round4(GuardedRatio(acc.bus_count, acc.total_gather)),
         railway_ratio |-> round4(GuardedRatio(acc.railway_count, acc.total_gather)),
         tram_ratio |-> round4(GuardedRatio(acc.tram_count, acc.total_gather))]

(***************************************************************************)
(* prepare_gini_data (gini.py:64-113).                                     *)
(***************************************************************************)
\* Position of `level` among the keys of gather_dict, 0 if absent.
KeyIndex(dict, level) ==
    IF \E k \in 1..Len(dict) : dict[k].level = level
    THEN CHOOSE k \in 1..Len(dict) : dict[k].level = level
    ELSE 0

\* Mutant: a level met again overwrites its population instead of adding to it.
GatherStepOverwrite(dict, row) ==
    LET gather_level == int(row.gather)
        population == row.population
        k == KeyIndex(dict, gather_level)
    IN  IF gather_level # 0
        THEN IF k = 0
             THEN Append(dict, [level |-> gather_level, population |-> population])
             ELSE [dict EXCEPT ![k].population = population]
        ELSE dict

\* One iteration of the grouping loop (gini.py:77-84).  gather_dict is a
\* Python dict: it keeps its keys in the order of first insertion.
GatherStep(dict, row) ==
    LET gather_level == int(row.gather)
        population == row.population
        k == KeyIndex(dict, gather_level)
    IN  IF gather_level # 0
        THEN IF k = 0
             THEN Append(dict, [level |-> gather_level, population |-> population])
             ELSE [dict EXCEPT ![k].population = dict[k].population + population]
        ELSE dict

\* gather_dict after the first n rows (gini.py:74-84).
RECURSIVE GatherLoop(_, _)
GatherLoop(rows, n) ==
    IF n = 0 THEN <<>> ELSE GatherStep(GatherLoop(rows, n - 1), rows[n])

\* sum(...) over the first n entries of a sequence of integers.
RECURSIVE SumSeq(_, _)
SumSeq(s, n) == IF n = 0 THEN 0 ELSE SumSeq(s, n - 1) + s[n]

\* Mutant: the weighted value is the population itself.
WeightedValuesUnweighted(dict) == [k \in 1..Len(dict) |-> dict[k].population]

\* populations and weighted_values (gini.py:88, 93).
Populations(dict) == [k \in 1..Len(dict) |-> dict[k].population]
WeightedValues(dict) == [k \in 1..Len(dict) |-> dict[k].population * dict[k].level]

\* pop / total_population and weight / total_weighted are float divisions:
\* with at least one group and a zero total they raise ZeroDivisionError
\* (gini.py:97-98).
PrepareRaises(rows) ==
    LET dict == GatherLoop(rows, Len(rows))
        total_population == SumSeq(Populations(dict), Len(dict))
        total_weighted == SumSeq(WeightedValues(dict), Len(dict))
    IN  Len(dict) > 0 /\ (total_population = 0 \/ total_weighted = 0)

\* The summary table, one record per row of the array (gini.py:86-113).
\* Defined when PrepareRaises is false.
prepare_gini_data(rows) ==
    LET dict == GatherLoop(rows, Len(rows))
        populations == Populations(dict)
        weighted_values == WeightedValues(dict)
        total_population == SumSeq(populations, Len(dict))
        total_weighted == SumSeq(weighted_values, Len(dict))
    IN  [k \in 1..Len(dict) |->
            LET p_ratio == Ratio(populations[k], total_population)
                w_ratio == Ratio(weighted_values[k], total_weighted)
            IN  [id |-> k,
                 gather_level |-> dict[k].level,
                 population |-> populations[k],
                 weighted_value |-> weighted_values[k],
                 pop_ratio |-> p_ratio,
                 weight_ratio |-> w_ratio,
                 weight_pop_ratio |->
                     IF RLess(Zero, p_ratio) THEN RDiv(w_ratio, p_ratio) ELSE Zero]]

(***************************************************************************)
(* calculate_gini_coefficient (gini.py:115-170).                           *)
(***************************************************************************)
\* The permutations of 1..n.
IndexOrders(n) ==
    {f \in [1..n -> 1..n] : \A i, j \in 1..n : i # j => f[i] # f[j]}

\* Mutant: no sort, the rows may stand in any order.
ArgsortsUnsorted(table) == IndexOrders(Len(table))

\* Mutant: the sort in descending order.
ArgsortsDescending(table) ==
    {f \in IndexOrders(Len(table)) :
        \A i \in 1..(Len(table) - 1) :
            RLeq(table[f[i + 1]].weight_pop_ratio, table[f[i]].weight_pop_ratio)}

\* The index arrays summary_table[:, 6].argsort() may return: column 6 read
\* through the result is ascending.  numpy's default sort is not stable, so
\* rows with equal keys may come out in either order (gini.py:126).
Argsorts(table) ==
    {f \in IndexOrders(Len(table)) :
        \A i \in 1..(Len(table) - 1) :
            RLeq(table[f[i]].weight_pop_ratio, table[f[i + 1]].weight_pop_ratio)}

\* summary_table[order] (gini.py:126).
TakeRows(table, order) == [i \in 1..Len(table) |-> table[order[i]]]

\* Mutant: each entry is the row's own ratio, without the running total.
RECURSIVE CumRatioNoCarry(_, _, _)
CumRatioNoCarry(sorted_table, column, n) ==
    IF n = 0 THEN <<Zero>>
    ELSE Append(CumRatioNoCarry(sorted_table, column, n - 1),
                IF column = 4 THEN sorted_table[n].pop_ratio
                              ELSE sorted_table[n].weight_ratio)

\* cum_pop_ratio / cum_weight_ratio after n appends (gini.py:129-134); the
\* Python list index i is the sequence index i + 1.
RECURSIVE CumRatio(_, _, _)
CumRatio(sorted_table, column, n) ==
    IF n = 0 THEN <<Zero>>
    ELSE LET prev == CumRatio(sorted_table, column, n - 1)
         IN  Append(prev, RAdd(IF column = 4 THEN sorted_table[n].pop_ratio
                                             ELSE sorted_table[n].weight_ratio,
                               prev[n]))

\* Mutant: the trapezoid counts only the current cumulative weight, as the
\* first iteration does, on every row.
RECURSIVE TrapezoidLoopNoPrev(_, _)
TrapezoidLoopNoPrev(sorted_table, n) ==
    IF n = 0
    THEN [cumulative_weight |-> 0, cumulative_sum |-> 0, calculations |-> <<>>]
    ELSE LET before == TrapezoidLoopNoPrev(sorted_table, n - 1)
             cumulative_weight ==
                 before.cumulative_weight + sorted_table[n].weighted_value
             calculation == cumulative_weight * sorted_table[n].population
         IN  [cumulative_weight |-> cumulative_weight,
              cumulative_sum |-> before.cumulative_sum + calculation,
              calculations |-> Append(before.calculations, calculation)]

\* The trapezoid loop after n rows (gini.py:142-155): the running
\* cumulative_weight, cumulative_sum and the list of calculations.
RECURSIVE TrapezoidLoop(_, _)
TrapezoidLoop(sorted_table, n) ==
    IF n = 0
    THEN [cumulative_weight |-> 0, cumulative_sum |-> 0, calculations |-> <<>>]
    ELSE LET before == TrapezoidLoop(sorted_table, n - 1)
             prev_cumulative == before.cumulative_weight
             cumulative_weight ==
                 IF n = 1 THEN sorted_table[n].weighted_value
                 ELSE prev_cumulative + sorted_table[n].weighted_value
             calculation ==
                 IF n = 1 THEN cumulative_weight * sorted_table[n].population
                 ELSE (prev_cumulative + cumulative_weight) * sorted_table[n].population
         IN  [cumulative_weight |-> cumulative_weight,
              cumulative_sum |-> before.cumulative_sum + calculation,
              calculations |-> Append(before.calculations, calculation)]

\* Column 2 and column 3 of the sorted table (gini.py:137-138).
Column2(sorted_table) == [i \in 1..Len(sorted_table) |-> sorted_table[i].population]
Column3(sorted_table) == [i \in 1..Len(sorted_table) |-> sorted_table[i].weighted_value]

\* 1 - (cumulative_sum / pw_product) if pw_product > 0 else 0 (gini.py:158).
GiniFormula(cumulative_sum, pw_product) ==
    IF pw_product > 0 THEN RSub(One, Ratio(cumulative_sum, pw_product)) ELSE Zero

\* The pair (gini_coefficient, results) for one outcome `order` of the argsort.
calculate_gini_coefficient(table, order) ==
    LET sorted_table == TakeRows(table, order)
        n == Len(sorted_table)
        total_population == SumSeq(Column2(sorted_table), n)
        total_weighted == SumSeq(Column3(sorted_table), n)
        pw_product == total_population * total_weighted
        loop == TrapezoidLoop(sorted_table, n)
        coefficient == GiniFormula(loop.cumulative_sum, pw_product)
    IN  [gini_coefficient |-> coefficient,
         results |->
            [gini_coefficient |-> round4(coefficient),
             cumulative_sum |-> round4(RInt(loop.cumulative_sum)),
             pw_product |-> round4(RInt(pw_product)),
             cum_pop_ratio |-> CumRatio(sorted_table, 4, n),
             cum_weight_ratio |-> CumRatio(sorted_table, 5, n),
             sorted_table |-> sorted_table,
             calculations |-> loop.calculations]]

(***************************************************************************)
(* Coordinates (coordinate.py).  A Python float is NaN, an infinity or a   *)
(* finite value; a finite coordinate is an integer count of 1e-5 degree.   *)
(* The offsets are computed in fixed point: sines from a table of whole    *)
(* degrees with linear interpolation, the polynomial in 1e-3 units.        *)
(***************************************************************************)
Fin(x) == [k |-> "fin", x |-> x]
NaN == [k |-> "nan", x |-> 0]
Inf(sign) == [k |-> "inf", x |-> sign]

\* Position of a non-NaN float on the number line.
Ord(a) == IF a.k = "inf" THEN a.x * 2000000000 ELSE a.x

\* a < b and a <= b on floats: false as soon as one side is NaN.
FLt(a, b) == a.k # "nan" /\ b.k # "nan" /\ Ord(a) < Ord(b)
FLe(a, b) == a.k # "nan" /\ b.k # "nan" /\ Ord(a) <= Ord(b)

\* math.isnan.
isnan(a) == a.k = "nan"

\* The class attributes (coordinate.py:22-24): PI in units of 1e-4, A in
\* metres, EE in units of 1e-6.
PI == 31416
A == 6378245
EE == 6693
ClassAttrs == [PI |-> PI, A |-> A, EE |-> EE]

\* 10000 * sin(k degrees) for k = 0..90, at index k + 1 (math.sin).
SinTable ==
    << 0, 175, 349, 523, 698, 872, 1045, 1219, 1392, 1564, 1736, 1908, 2079,
       2250, 2419, 2588, 2756, 2924, 3090, 3256, 3420, 3584, 3746, 3907, 4067,
       4226, 4384, 4540, 4695, 4848, 5000, 5150, 5299, 5446, 5592, 5736, 5878,
       6018, 6157, 6293, 6428, 6561, 6691, 6820, 6947, 7071, 7193, 7314, 7431,
       7547, 7660, 7771, 7880, 7986, 8090, 8192, 8290, 8387, 8480, 8572, 8660,
       8746, 8829, 8910, 8988, 9063, 9135, 9205, 9272, 9336, 9397, 9455, 9511,
       9563, 9613, 9659, 9703, 9744, 9781, 9816, 9848, 9877, 9903, 9925, 9945,
       9962, 9976, 9986, 9994, 9998, 10000 >>

\* 10000 * sin of an angle of a millidegrees, 0 <= a <= 90000.
SinQuarter(a) ==
    LET d == a \div 1000
        f == a % 1000
    IN  IF d >= 90 THEN 10000
        ELSE SinTable[d + 1] + ((SinTable[d + 2] - SinTable[d + 1]) * f) \div 1000

\* math.sin and math.cos of an angle given in millidegrees, times 10000.
sin(a) ==
    LET r == a % 360000
    IN  IF r <= 90000 THEN SinQuarter(r)
        ELSE IF r <= 180000 THEN SinQuarter(180000 - r)
        ELSE IF r <= 270000 THEN -SinQuarter(r - 180000)
        ELSE -SinQuarter(360000 - r)
cos(a) == sin(a + 90000)

\* math.sqrt on a non-negative integer: the integer part of the root.
RECURSIVE SqrtSearch(_, _, _)
SqrtSearch(n, lo, hi) ==
    IF lo >= hi THEN lo
    ELSE LET mid == (lo + hi + 1) \div 2
         IN  IF mid * mid <= n THEN SqrtSearch(n, mid, hi)
             ELSE SqrtSearch(n, lo, mid - 1)
sqrt(n) == SqrtSearch(n, 0, 46340)

\* The angle x * factor * PI radians in millidegrees, for x in 1e-5 degree:
\* 6.0 * x * PI, 2.0 * x * PI, x * PI, x / 3.0 * PI, x / 12.0 * PI, x / 30.0 * PI.
Angle6(x) == ((10 * x) % 360000) + (((8 * x) \div 10) % 360000)
Angle2(x) == (36 * x) \div 10
Angle1(x) == (18 * x) \div 10
AngleThird(x) == (6 * x) \div 10
AngleTwelfth(x) == (15 * x) \div 100
AngleThirtieth(x) == (6 * x) \div 100

\* (p * sin(a) + q * sin(b)) * 2.0 / 3.0 in 1e-3 units.
SinePair(p, a, q, b) == ((p * sin(a) + q * sin(b)) * 2) \div 30

\* transform_lat (coordinate.py:30-49): lng, lat in 1e-5 degree, result in
\* 1e-3 units.
transform_lat(lng, lat) ==
    LET lngc == lng \div 1000
        latc == lat \div 1000
    IN  -100000 + (2 * lng) \div 100 + (3 * lat) \div 100 + (latc * latc) \div 50
            + (lngc * latc) \div 100 + 2 * sqrt(Abs(lng) \div 10)
            + SinePair(20, Angle6(lng), 20, Angle2(lng))
            + SinePair(20, Angle1(lat), 40, AngleThird(lat))
            + SinePair(160, AngleTwelfth(lat), 320, AngleThirtieth(lat))

\* transform_lng (coordinate.py:51-70).
transform_lng(lng, lat) ==
    LET lngc == lng \div 1000
        latc == lat \div 1000
    IN  300000 + lng \div 100 + (2 * lat) \div 100 + (lngc * lngc) \div 100
            + (lngc * latc) \div 100 + sqrt(Abs(lng) \div 10)
            + SinePair(20, Angle6(lng), 20, Angle2(lng))
            + SinePair(20, Angle1(lng), 40, AngleThird(lng))
            + SinePair(150, AngleTwelfth(lng), 300, AngleThirtieth(lng))

\* Mutant: only the longitude is tested.
is_out_of_china_lng_only(lng, lat) ==
    FLt(lng, Fin(7200400)) \/ FLt(Fin(13783470), lng)

\* Mutant: only the latitude is tested.
is_out_of_china_lat_only(lng, lat) ==
    FLt(lat, Fin(82930)) \/ FLt(Fin(5582710), lat)

\* is_out_of_china (coordinate.py:72-87).
is_out_of_china(lng, lat) ==
    IF FLt(lng, Fin(7200400)) \/ FLt(Fin(13783470), lng) THEN TRUE
    ELSE IF FLt(lat, Fin(82930)) \/ FLt(Fin(5582710), lat) THEN TRUE
    ELSE FALSE

\* Mutant: the offsets are not scaled from metres to degrees.
CorrectionUnscaled(lat) ==
    [radlat |-> lat \div 100, magic |-> 1000000, sqrtmagic |-> 1000,
     magic_sqrtmagic |-> 1000, lat_divisor |-> 1, lng_divisor |-> 1]

\* The intermediate values of the correction branch at a finite latitude
\* (coordinate.py:108-114): radlat in millidegrees, magic in 1e-6, sqrtmagic
\* in 1e-3, and the divisors of the two quotients of lines 113-114, inner
\* (magic * sqrtmagic, sqrtmagic) and outer (metres per degree of latitude
\* and of longitude).  PI radians are 180000 millidegrees.
Correction(lat) ==
    LET radlat == lat \div 100
        s == sin(radlat)
        magic == 1000000 - (class_attrs.EE * ((s * s) \div 10000)) \div 10000
        sqrtmagic == IF magic >= 0 THEN sqrt(magic) ELSE 0
        per_degree == ((class_attrs.A \div 1000) * class_attrs.PI) \div 1800
        meridian == per_degree - (per_degree * class_attrs.EE) \div 1000000
        magic_sqrtmagic == (magic * sqrtmagic) \div 1000000
    IN  [radlat |-> radlat,
         magic |-> magic,
         sqrtmagic |-> sqrtmagic,
         magic_sqrtmagic |-> magic_sqrtmagic,
         lat_divisor |-> IF magic_sqrtmagic = 0 THEN 0
                         ELSE (meridian * 1000) \div magic_sqrtmagic,
         lng_divisor |-> IF sqrtmagic = 0 THEN 0
                         ELSE (((per_degree * 1000) \div sqrtmagic) * cos(radlat)) \div 10000]

\* The exception the correction branch raises, "none" when it returns:
\* math.sqrt of a negative number (line 111), a zero divisor (lines 113-114).
CorrectionError(lat) ==
    LET c == Correction(lat)
    IN  IF c.magic < 0 THEN "ValueError"
        ELSE IF c.magic_sqrtmagic = 0 \/ c.lat_divisor = 0 THEN "ZeroDivisionError"
        ELSE IF c.sqrtmagic = 0 \/ c.lng_divisor = 0 THEN "ZeroDivisionError"
        ELSE "none"

\* The outcome of a call: a returned value or a raised exception.
Returned(value) == [raised |-> "none", value |-> value]
Raised(exception) == [raised |-> exception, value |-> <<>>]

\* gcj02_to_wgs84 (coordinate.py:89-123) on floats lng, lat.  A NaN passes
\* the four comparisons of is_out_of_china and makes every later value NaN.
gcj02_to_wgs84(lng, lat) ==
    IF is_out_of_china(lng, lat) THEN Returned(<<lng, lat>>)
    ELSE IF lng.k # "fin" \/ lat.k # "fin" THEN Returned(<<NaN, NaN>>)
    ELSE IF CorrectionError(lat.x) # "none" THEN Raised(CorrectionError(lat.x))
    ELSE LET dlat == transform_lat(lng.x - 10500000, lat.x - 3500000)
             dlng == transform_lng(lng.x - 10500000, lat.x - 3500000)
             c == Correction(lat.x)
         IN  Returned(<<Fin(lng.x - (dlng * 100) \div c.lng_divisor),
                        Fin(lat.x - (dlat * 100) \div c.lat_divisor)>>)

\* str.upper on the datum names used.
upper(source_crs) ==
    CASE source_crs = "gcj02" -> "GCJ02"
      [] source_crs = "Gcj02" -> "GCJ02"
      [] source_crs = "wgs84" -> "WGS84"
      [] source_crs = "bd09" -> "BD09"
      [] OTHER -> source_crs

\* Mutant: the datum is not looked at.
convert_single_point_any_datum(lng, lat, source_crs) == gcj02_to_wgs84(lng, lat)

\* convert_single_point (coordinate.py:189-205).
convert_single_point(lng, lat, source_crs) ==
    IF upper(source_crs) = "GCJ02" THEN gcj02_to_wgs84(lng, lat)
    ELSE Raised("ValueError")

\* Mutant: the bounds themselves are rejected.
InRangeStrict(lng, lat) ==
    /\ FLt(Fin(-18000000), lng) /\ FLt(lng, Fin(18000000))
    /\ FLt(Fin(-9000000), lat) /\ FLt(lat, Fin(9000000))

\* -180 <= lng <= 180 and -90 <= lat <= 90 on floats.
InRange(lng, lat) ==
    /\ FLe(Fin(-18000000), lng) /\ FLe(lng, Fin(18000000))
    /\ FLe(Fin(-9000000), lat) /\ FLe(lat, Fin(9000000))

\* validate_coordinates (coordinate.py:207-228): one flag per pair, in order.
validate_coordinates(coords) ==
    [i \in 1..Len(coords) |->
        /\ InRange(coords[i][1], coords[i][2])
        /\ ~isnan(coords[i][1])
        /\ ~isnan(coords[i][2])]

\* DataValidator.validate_coordinate (utils.py:310-322).
validate_coordinate(lng, lat) ==
    /\ FLe(Fin(-18000000), lng) /\ FLe(lng, Fin(18000000))
    /\ FLe(Fin(-9000000), lat) /\ FLe(lat, Fin(9000000))

(***************************************************************************)
(* Input tables.                                                           *)
(***************************************************************************)
\* The tables of the repository's tests (test_gini.py:31-37, 84-88, 99-103).
test_data ==
    << Row(500, Str(<<2>>), Str(<<1>>), Str(<<0>>), Str(<<3>>)),
       Row(300, Str(<<1>>), Str(<<0>>), Str(<<1>>), Str(<<2>>)),
       Row(200, Str(<<0>>), Str(<<0>>), Str(<<0>>), Str(<<0>>)),
       Row(400, Str(<<3>>), Str(<<0>>), Str(<<0>>), Str(<<3>>)),
       Row(600, Str(<<1>>), Str(<<1>>), Str(<<1>>), Str(<<3>>)) >>

equal_data ==
    << Row(100, Str(<<1>>), Str(<<0>>), Str(<<0>>), Str(<<1>>)),
       Row(100, Str(<<1>>), Str(<<0>>), Str(<<0>>), Str(<<1>>)),
       Row(100, Str(<<1>>), Str(<<0>>), Str(<<0>>), Str(<<1>>)) >>

unequal_data ==
    << Row(100, Str(<<0>>), Str(<<0>>), Str(<<0>>), Str(<<0>>)),
       Row(100, Str(<<0>>), Str(<<0>>), Str(<<0>>), Str(<<0>>)),
       Row(100, Str(<<3>>), Str(<<1>>), Str(<<1>>), Str(<<5>>)) >>

\* Level cells as a CSV file holds them (texts, "00" among them) and as a
\* numeric table holds them.
TextLevels == {Str(<<d>>) : d \in 0..MaxLevel} \cup {Str(<<0, 0>>)}
NumberLevels == {Num(d) : d \in 0..MaxLevel}

\* Mode cells: one-digit texts.
ModeCells == {Str(<<d>>) : d \in 0..MaxMode}

\* Rows without any stop count, for the grouping and the coefficient.
PlainRows(levels) ==
    {Row(p, Str(<<0>>), Str(<<0>>), Str(<<0>>), g) : p \in 0..MaxPop, g \in levels}

\* Rows of population MaxPop on which at most one mode has stops, for the
\* mode ratios.
ModeRows ==
    {Row(MaxPop, b, r, t, g) : b \in ModeCells, r \in ModeCells, t \in ModeCells,
                               g \in TextLevels}
        \ {row \in [population : {MaxPop}, bus : ModeCells, railway : ModeCells,
                    tram : ModeCells, gather : TextLevels] :
              Cardinality({m \in {"bus", "railway", "tram"} : int(row[m]) # 0}) > 1}

Tables(rows, longest) == UNION {[1..n -> rows] : n \in 0..longest}

Inputs ==
    Tables(PlainRows(TextLevels), MaxRows)
        \cup Tables(PlainRows(NumberLevels), MaxRows)
        \cup Tables(ModeRows, MaxRows - 1)
        \cup {test_data, equal_data, unequal_data}

(***************************************************************************)
(* The state machine: generate_gini_report's composition (gini.py:191-198) *)
(* applied to a table.                                                     *)
(***************************************************************************)
NoStats ==
    [total_population |-> Zero, valid_population |-> Zero, population_ratio |-> Zero,
     bus_ratio |-> Zero, railway_ratio |-> Zero, tram_ratio |-> Zero]

NoResults ==
    [gini_coefficient |-> Zero, cumulative_sum |-> Zero, pw_product |-> Zero,
     cum_pop_ratio |-> <<>>, cum_weight_ratio |-> <<>>, sorted_table |-> <<>>,
     calculations |-> <<>>]

\* No file opened, and generate_gini_report not called on a file: the table is
\* given to the three operations directly.
NoStorage == [read |-> {}, written |-> {}]
NoReportCall == [input_file |-> "", output_file |-> "", lines |-> <<>>]

\* No file, numpy's default print options.
NoFiles == [path \in {"test.csv", "stops.txt"} |-> [exists |-> FALSE, lines |-> <<>>]]
EnvIdle ==
    /\ files = NoFiles
    /\ np_printoptions = [suppress |-> FALSE]

\* No crawl.
NoSite == [ok |-> FALSE, categories |-> <<>>]
CrawlIdle ==
    /\ site = NoSite
    /\ crawl_args = [city |-> "", output_file |-> ""]
    /\ crawl_pc = "idle"
    /\ categories = <<>>
    /\ cat_idx = 0
    /\ bus_lines = <<>>
    /\ line_idx = 0
    /\ all_stops = {}
    /\ line_count = 0
    /\ requests = <<>>

\* The coordinate API and the conversion script at rest.
CoordIdle ==
    /\ class_attrs = ClassAttrs
    /\ calls = <<>>

BatchIdle ==
    /\ args = [source_crs |-> "GCJ02"]
    /\ script_pc = "idle"
    /\ df = <<>>
    /\ idx = 0
    /\ wgs84_coords = <<>>
    /\ converted_count = 0
    /\ columns = <<>>

Init ==
    /\ data \in Inputs
    /\ pc = "stats"
    /\ basic_stats = NoStats
    /\ summary_table = <<>>
    /\ gini_coefficient = Zero
    /\ gini_results = NoResults
    /\ report_call = NoReportCall
    /\ storage = NoStorage
    /\ CoordIdle
    /\ EnvIdle
    /\ CrawlIdle
    /\ BatchIdle

\* basic_stats = self.calculate_basic_stats(data) (gini.py:192).
CalculateBasicStats ==
    /\ pc = "stats"
    /\ basic_stats' = calculate_basic_stats(data)
    /\ pc' = "prepare"
    /\ UNCHANGED <<data, summary_table, gini_coefficient, gini_results>>
    /\ UNCHANGED <<report_call, storage, coordVars, batchVars>>
    /\ UNCHANGED <<envVars, crawlVars>>

\* summary_table = self.prepare_gini_data(data) (gini.py:195) returns.
PrepareGiniData ==
    /\ pc = "prepare"
    /\ ~PrepareRaises(data)
    /\ summary_table' = prepare_gini_data(data)
    /\ pc' = "gini"
    /\ UNCHANGED <<data, basic_stats, gini_coefficient, gini_results>>
    /\ UNCHANGED <<report_call, storage, coordVars, batchVars>>
    /\ UNCHANGED <<envVars, crawlVars>>

\* self.prepare_gini_data(data) raises ZeroDivisionError (gini.py:97-98); the
\* exception leaves generate_gini_report.
PrepareGiniDataRaises ==
    /\ pc = "prepare"
    /\ PrepareRaises(data)
    /\ pc' = "raised"
    /\ UNCHANGED <<data, basic_stats, summary_table, gini_coefficient, gini_results>>
    /\ UNCHANGED <<report_call, storage, coordVars, batchVars>>
    /\ UNCHANGED <<envVars, crawlVars>>

\* gini_coefficient, gini_results = self.calculate_gini_coefficient(summary_table)
\* (gini.py:198).
CalculateGiniCoefficient ==
    /\ pc = "gini"
    /\ \E order \in Argsorts(summary_table) :
          LET out == calculate_gini_coefficient(summary_table, order)
          IN  /\ gini_coefficient' = out.gini_coefficient
              /\ gini_results' = out.results
    /\ pc' = "done"
    /\ UNCHANGED <<data, basic_stats, summary_table>>
    /\ UNCHANGED <<report_call, storage, coordVars, batchVars>>
    /\ UNCHANGED <<envVars, crawlVars>>

Next ==
    \/ CalculateBasicStats
    \/ PrepareGiniData
    \/ PrepareGiniDataRaises
    \/ CalculateGiniCoefficient

Spec == Init /\ [][Next]_vars

(***************************************************************************)
(* Vocabulary of the specification, defined on the input table itself.     *)
(***************************************************************************)
\* A unit's service_level, and whether the unit is served.
ServiceLevel(row) == int(row.gather)
Served(row) == ServiceLevel(row) > 0

\* Sum of f[i] for i in the finite set S of indices.
RECURSIVE SumOver(_, _)
SumOver(f, S) ==
    IF S = {} THEN 0
    ELSE LET i == CHOOSE j \in S : TRUE IN f[i] + SumOver(f, S \ {i})

PopulationOf(rows) == [i \in 1..Len(rows) |-> rows[i].population]
ServedUnits(rows) == {i \in 1..Len(rows) : Served(rows[i])}
UnitsAt(rows, level) == {i \in 1..Len(rows) : ServiceLevel(rows[i]) = level}
PositiveLevels(rows) == {ServiceLevel(rows[i]) : i \in ServedUnits(rows)}
FirstUnitAt(rows, level) ==
    CHOOSE i \in UnitsAt(rows, level) : \A j \in UnitsAt(rows, level) : i <= j

\* prepare_gini_data has returned a table.
Prepared == pc \in {"gini", "done"}

\* Sum of a ratio-valued column of the summary table.
RECURSIVE SumRatios(_, _)
SumRatios(s, n) == IF n = 0 THEN Zero ELSE RAdd(SumRatios(s, n - 1), s[n])
PopShares == [k \in 1..Len(summary_table) |-> summary_table[k].pop_ratio]
WeightedShares == [k \in 1..Len(summary_table) |-> summary_table[k].weight_ratio]

(***************************************************************************)
(* Claims.                                                                 *)
(***************************************************************************)

\* C1 (skewed concentration): for the units (100, level 0), (100, level 0),
\* (100, level 5) of test_gini_with_perfect_inequality the coefficient
\* returned is strictly greater than 0.5.
C1_SkewedConcentration ==
    (data = unequal_data /\ pc = "done") => RLess(Ratio(1, 2), gini_coefficient)

\* C2 (Gini bounds): for every non-empty summary table that prepare_gini_data
\* produces, the coefficient returned by calculate_gini_coefficient lies in
\* [0, 1].
C2_GiniBounds ==
    (pc = "done" /\ Len(summary_table) > 0)
        => RLeq(Zero, gini_coefficient) /\ RLeq(gini_coefficient, One)

\* A table of at least two groups with a coefficient strictly inside (0, 1).
C2_Witness ==
    /\ pc = "done"
    /\ Len(summary_table) >= 2
    /\ RLess(Zero, gini_coefficient)
    /\ RLess(gini_coefficient, One)

\* The specification's formula, written from its definition: W(i) is the
\* weighted population of the first i rows, S the sum of the trapezoids.
BrownW(rows, i) == SumOver([k \in 1..Len(rows) |-> rows[k].weighted_value], 1..i)
BrownS(rows) ==
    SumOver([i \in 1..Len(rows) |->
                (BrownW(rows, i - 1) + BrownW(rows, i)) * rows[i].population],
            1..Len(rows))
BrownP(rows) == SumOver([k \in 1..Len(rows) |-> rows[k].population], 1..Len(rows))
BrownT(rows) == BrownW(rows, Len(rows))
BrownCoefficient(rows) ==
    IF BrownP(rows) * BrownT(rows) = 0 THEN Zero
    ELSE RSub(One, Ratio(BrownS(rows), BrownP(rows) * BrownT(rows)))

\* s is a rearrangement of t: some permutation of the indices maps one to the other.
IsRearrangement(s, t) ==
    /\ Len(s) = Len(t)
    /\ \E f \in IndexOrders(Len(t)) : \A i \in 1..Len(t) : s[i] = t[f[i]]

\* C3 (Brown/trapezoid formula): the rows calculate_gini_coefficient works on
\* are the rows of the summary table in ascending order of advantage_ratio
\* (column 6), and the coefficient it returns is 1 - S/(P*T) with
\* S = sum of (W_{i-1} + W_i) * population_i over those rows, and 0 when
\* P*T = 0.
C3_BrownFormula ==
    pc = "done" =>
        LET rows == gini_results.sorted_table
        IN  /\ IsRearrangement(rows, summary_table)
            /\ \A i \in 1..(Len(rows) - 1) :
                   RLeq(rows[i].weight_pop_ratio, rows[i + 1].weight_pop_ratio)
            /\ gini_coefficient = BrownCoefficient(rows)

\* The sort moved rows of a table of three groups and the coefficient is not 0.
C3_Witness ==
    /\ pc = "done"
    /\ Len(summary_table) >= 3
    /\ gini_results.sorted_table # summary_table
    /\ gini_coefficient # Zero

\* The degenerate inputs of the specification: zero total population, no
\* served unit, or a single group.
Degenerate(rows) ==
    \/ SumOver(PopulationOf(rows), 1..Len(rows)) = 0
    \/ ServedUnits(rows) = {}
    \/ Cardinality(PositiveLevels(rows)) = 1

\* C4 (degenerate inputs never raise): on a degenerate input no step raises,
\* the coefficient is 0, and without any served unit the summary is empty.
C4_DegenerateNeverRaises ==
    Degenerate(data) =>
        /\ pc # "raised"
        /\ pc = "done" => gini_coefficient = Zero
        /\ (Prepared /\ ServedUnits(data) = {}) => summary_table = <<>>

\* What the code does keep of C4: a degenerate input that gets through
\* prepare_gini_data ends with coefficient 0.
C4_ZeroWhenReturned ==
    (Degenerate(data) /\ pc = "done") => gini_coefficient = Zero

\* C5 (perfect equality): whenever all served units share one service level,
\* prepare_gini_data followed by calculate_gini_coefficient yields 0.
C5_PerfectEquality ==
    (Cardinality(PositiveLevels(data)) <= 1 /\ pc \in {"done", "raised"})
        => pc = "done" /\ gini_coefficient = Zero

\* What the code does keep of C5: when the steps return, one shared level
\* gives coefficient 0.
C5_ZeroWhenReturned ==
    (Cardinality(PositiveLevels(data)) <= 1 /\ pc = "done") => gini_coefficient = Zero

\* C6 (share normalization): for every input with at least one group the
\* summary table returned has population_share and weighted_share each
\* summing to 1.
C6_ShareNormalization ==
    (PositiveLevels(data) # {} /\ pc \in {"gini", "done", "raised"})
        => /\ Prepared
           /\ SumRatios(PopShares, Len(summary_table)) = One
           /\ SumRatios(WeightedShares, Len(summary_table)) = One

\* What the code does keep of C6: a non-empty table that is returned has
\* both shares summing to 1.
C6_NormalizedWhenReturned ==
    (Prepared /\ Len(summary_table) > 0)
        => /\ SumRatios(PopShares, Len(summary_table)) = One
           /\ SumRatios(WeightedShares, Len(summary_table)) = One

\* One row per distinct positive level, none for level 0, populations summed
\* per level, rows and ids 1..K in the order the levels are first met.
GroupedAsSpecified ==
    /\ Len(summary_table) = Cardinality(PositiveLevels(data))
    /\ \A k \in 1..Len(summary_table) :
          /\ summary_table[k].id = k
          /\ summary_table[k].gather_level \in PositiveLevels(data)
          /\ summary_table[k].population =
                SumOver(PopulationOf(data), UnitsAt(data, summary_table[k].gather_level))
    /\ \A j, k \in 1..Len(summary_table) :
          j < k => FirstUnitAt(data, summary_table[j].gather_level)
                      < FirstUnitAt(data, summary_table[k].gather_level)

\* C7 (grouping): prepare_gini_data produces the table grouped as specified,
\* for every input.
C7_Grouping ==
    pc \in {"gini", "done", "raised"} => Prepared /\ GroupedAsSpecified

\* What the code does keep of C7: a table that is returned is grouped as
\* specified.
C7_GroupedWhenReturned == Prepared => GroupedAsSpecified

\* C8 (concrete scenario): for the table of the test suite, valid_population
\* is 1800, the groups are level 2 with 300 and level 3 with 1500, and the
\* coefficient is 1 - (600*300 + (600+5100)*1500)/(1800*5100) = 5/102.
C8_ConcreteScenario ==
    data = test_data =>
        /\ pc # "raised"
        /\ pc # "stats" => basic_stats.valid_population = RInt(1800)
        /\ Prepared =>
              /\ Len(summary_table) = 2
              /\ {<<summary_table[k].gather_level, summary_table[k].population>> :
                      k \in 1..Len(summary_table)} = {<<2, 300>>, <<3, 1500>>}
        /\ pc = "done" =>
              /\ gini_coefficient =
                    RSub(One, Ratio(600 * 300 + (600 + 5100) * 1500, 1800 * 5100))
              /\ gini_coefficient = Ratio(5, 102)

\* The report of the test table is complete.
C8_Witness == data = test_data /\ pc = "done"

\* C9 (basic statistics): total_population sums every unit, valid_population
\* sums exactly the served units, population_ratio is their quotient (0 for
\* a zero total) and lies in [0, 1]; every output rounded to 4 digits.
C9_BasicStats ==
    pc # "stats" =>
        LET total == SumOver(PopulationOf(data), 1..Len(data))
            valid == SumOver(PopulationOf(data), ServedUnits(data))
        IN  /\ basic_stats.total_population = round4(RInt(total))
            /\ basic_stats.valid_population = round4(RInt(valid))
            /\ basic_stats.population_ratio =
                  round4(IF total = 0 THEN Zero ELSE Ratio(valid, total))
            /\ RLeq(Zero, basic_stats.population_ratio)
            /\ RLeq(basic_stats.population_ratio, One)

\* What the code does keep of C9: the total and the range of the ratio.
C9_TotalAndRange ==
    pc # "stats" =>
        /\ basic_stats.total_population =
              round4(RInt(SumOver(PopulationOf(data), 1..Len(data))))
        /\ RLeq(Zero, basic_stats.population_ratio)
        /\ RLeq(basic_stats.population_ratio, One)

\* Every level cell is a one-character text, as in the repository's tests.
PlainTextLevels ==
    \A i \in 1..Len(data) : data[i].gather.kind = "str" /\ Len(data[i].gather.v) = 1

\* What the code does keep of C9: it is exact on one-character level texts.
C9_ExactOnPlainText == PlainTextLevels => C9_BasicStats

\* A mode's stop count summed over the served units, and the ratio the
\* specification gives it.
ModeTotal(rows, mode) ==
    SumOver([i \in 1..Len(rows) |-> int(rows[i][mode])], ServedUnits(rows))
LevelTotal(rows) ==
    SumOver([i \in 1..Len(rows) |-> ServiceLevel(rows[i])], ServedUnits(rows))
ModeRatio(rows, mode) ==
    round4(IF LevelTotal(rows) = 0 THEN Zero
           ELSE Ratio(ModeTotal(rows, mode), LevelTotal(rows)))

\* C10 (mode ratios): each mode's ratio is its total over the served units
\* divided by the sum of their service levels, 0 when that sum is 0.
C10_ModeRatios ==
    pc # "stats" =>
        /\ basic_stats.bus_ratio = ModeRatio(data, "bus")
        /\ basic_stats.railway_ratio = ModeRatio(data, "railway")
        /\ basic_stats.tram_ratio = ModeRatio(data, "tram")

\* What the code does keep of C10: it is exact on one-character level texts.
C10_ExactOnPlainText == PlainTextLevels => C10_ModeRatios

(***************************************************************************)
(* The sorted rows and the cumulative sequences of the detail.             *)
(***************************************************************************)
\* Row a stands before row b under the key (advantage_ratio, service_level, id).
TieBreakBefore(a, b) ==
    \/ RLess(a.weight_pop_ratio, b.weight_pop_ratio)
    \/ /\ a.weight_pop_ratio = b.weight_pop_ratio
       /\ \/ a.gather_level < b.gather_level
          \/ a.gather_level = b.gather_level /\ a.id < b.id

\* C17 (tie-break of the sort): rows of equal advantage_ratio stand in the
\* sorted sequence of the detail by service_level ascending, then id, so
\* every two neighbours are ordered by (advantage_ratio, service_level, id).
C17_TieBreak ==
    pc = "done" =>
        \A i \in 1..(Len(gini_results.sorted_table) - 1) :
            TieBreakBefore(gini_results.sorted_table[i], gini_results.sorted_table[i + 1])

\* What the code does keep of C17: column 6 is ascending through the sorted rows.
C17_AscendingRatio ==
    pc = "done" =>
        \A i \in 1..(Len(gini_results.sorted_table) - 1) :
            RLeq(gini_results.sorted_table[i].weight_pop_ratio,
                 gini_results.sorted_table[i + 1].weight_pop_ratio)

\* A cumulative sequence over K rows: K + 1 entries from 0 to 1, never decreasing.
CumulativeShape(cum, K) ==
    /\ Len(cum) = K + 1
    /\ cum[1] = Zero
    /\ \A i \in 1..K : RLeq(cum[i], cum[i + 1])
    /\ cum[K + 1] = One

\* C18 (cumulative sequences): for a non-empty summary table of K rows,
\* cum_pop_ratio and cum_weight_ratio of the detail each have K + 1 entries,
\* start at 0, are non-decreasing and end at 1.
C18_CumulativeSequences ==
    (pc = "done" /\ Len(summary_table) > 0) =>
        /\ CumulativeShape(gini_results.cum_pop_ratio, Len(summary_table))
        /\ CumulativeShape(gini_results.cum_weight_ratio, Len(summary_table))

\* Reached: three groups, with cumulative shares strictly between 0 and 1
\* that differ between the two sequences.
C18_Witness ==
    /\ pc = "done"
    /\ Len(summary_table) = 3
    /\ RLess(Zero, gini_results.cum_pop_ratio[2])
    /\ RLess(gini_results.cum_pop_ratio[3], One)
    /\ RLess(gini_results.cum_weight_ratio[3], gini_results.cum_pop_ratio[3])

(***************************************************************************)
(* The coordinate API called once, and the conversion script               *)
(* (scripts/coordinate_conversion.py) run on a frame.                      *)
(***************************************************************************)
\* The generate_gini_report variables at rest.
GiniIdle ==
    /\ data = <<>>
    /\ pc = "idle"
    /\ basic_stats = NoStats
    /\ summary_table = <<>>
    /\ gini_coefficient = Zero
    /\ gini_results = NoResults
    /\ report_call = NoReportCall
    /\ storage = NoStorage

\* Longitudes and latitudes: around the validity bounds (180, 90 degrees),
\* around and inside the bounding region, and the non-finite floats.
Lngs ==
    {NaN, Inf(-1), Inf(1)} \cup
    {Fin(x) : x \in {-18000001, -18000000, 0, 7200399, 7200400, 10500000,
                     11640400, 13783470, 13783471, 18000000, 18000001}}
Lats ==
    {NaN, Inf(-1), Inf(1)} \cup
    {Fin(y) : y \in {-9000001, -9000000, 0, 82929, 82930, 1000000, 2000000,
                     3000000, 3500000, 4500000, 5000000,
                     3991500, 5582710, 5582711, 9000000, 9000001}}
Points == Lngs \X Lats

\* Pairs for the lists given to validate_coordinates.
MaxList == 2
ListPoints ==
    {<<Fin(11640400), Fin(3991500)>>, <<Fin(18000000), Fin(-9000000)>>,
     <<Fin(18000001), Fin(0)>>, <<Fin(0), Fin(9000001)>>,
     <<NaN, Fin(0)>>, <<Fin(0), NaN>>, <<Inf(1), Fin(0)>>}
Lists == UNION {[1..n -> ListPoints] : n \in 0..MaxList}

\* Source datum names a caller may give.
Datums == {"GCJ02", "gcj02", "WGS84", "wgs84", "BD09"}

\* The API is open to a caller for at most `limit` calls; a call is recorded
\* with its outcome.
CanCall(limit) == script_pc = "idle" /\ Len(calls) < limit
CallRecord(self, op, arguments, outcome) ==
    [self |-> self, op |-> op, args |-> arguments, outcome |-> outcome]

\* Mutant: a call recalibrates the semi-major axis.
AttrsRecalibrated(attrs) == [attrs EXCEPT !.A = attrs.A \div 2]

\* The class attributes after a method of the converter has run: no method
\* assigns to PI, A or EE, and __init__ sets nothing (coordinate.py:26-28).
AttrsAfterCall(attrs) == attrs

\* converter.gcj02_to_wgs84(lng, lat).
Gcj02ToWgs84(limit, self, lng, lat) ==
    /\ CanCall(limit)
    /\ calls' = Append(calls, CallRecord(self, "gcj02_to_wgs84", <<lng, lat>>,
                                         gcj02_to_wgs84(lng, lat)))
    /\ class_attrs' = AttrsAfterCall(class_attrs)
    /\ UNCHANGED <<giniVars, batchVars>>
    /\ UNCHANGED <<envVars, crawlVars>>

\* converter.convert_single_point(lng, lat, source_crs).
ConvertSinglePoint(limit, self, lng, lat, source_crs) ==
    /\ CanCall(limit)
    /\ calls' = Append(calls, CallRecord(self, "convert_single_point",
                                         <<lng, lat, source_crs>>,
                                         convert_single_point(lng, lat, source_crs)))
    /\ class_attrs' = AttrsAfterCall(class_attrs)
    /\ UNCHANGED <<giniVars, batchVars>>
    /\ UNCHANGED <<envVars, crawlVars>>

\* converter.validate_coordinates(coordinates).
ValidateCoordinates(limit, self, coordinates) ==
    /\ CanCall(limit)
    /\ calls' = Append(calls, CallRecord(self, "validate_coordinates", coordinates,
                                         Returned(validate_coordinates(coordinates))))
    /\ class_attrs' = AttrsAfterCall(class_attrs)
    /\ UNCHANGED <<giniVars, batchVars>>
    /\ UNCHANGED <<envVars, crawlVars>>

\* DataValidator.validate_coordinate(lng, lat), a static method.
ValidateCoordinate(limit, lng, lat) ==
    /\ CanCall(limit)
    /\ calls' = Append(calls, CallRecord("DataValidator", "validate_coordinate",
                                         <<lng, lat>>,
                                         Returned(validate_coordinate(lng, lat))))
    /\ UNCHANGED <<class_attrs, giniVars, batchVars>>
    /\ UNCHANGED <<envVars, crawlVars>>

\* A cell of the frame: a float (numeric column, NaN where the file has no
\* value), a text (object column) or None.
FloatCell(f) == [kind |-> "float", t |-> "", f |-> f]
TextCell(t) == [kind |-> "text", t |-> t, f |-> NaN]
NoneCell == [kind |-> "none", t |-> "", f |-> NaN]

\* The marker None in a result pair.
None == [k |-> "none", x |-> 0]

\* float(cell) (coordinate.py:162-163): a float is itself, a text is parsed
\* ("nan" and "inf" are floats to Python), None is a TypeError.
float(cell) ==
    IF cell.kind = "float" THEN [raised |-> "none", f |-> cell.f]
    ELSE IF cell.kind = "none" THEN [raised |-> "TypeError", f |-> NaN]
    ELSE CASE cell.t = "116.404" -> [raised |-> "none", f |-> Fin(11640400)]
           [] cell.t = "39.915" -> [raised |-> "none", f |-> Fin(3991500)]
           [] cell.t = "nan" -> [raised |-> "none", f |-> NaN]
           [] cell.t = "inf" -> [raised |-> "none", f |-> Inf(1)]
           [] OTHER -> [raised |-> "ValueError", f |-> NaN]

\* Mutant: the counter is incremented for a failed row as well.
ConvertRowBodyCountsAll(row) ==
    IF float(row[1]).raised # "none" \/ float(row[2]).raised # "none"
    THEN [pair |-> <<None, None>>, converted |-> TRUE, raised |-> "none"]
    ELSE [pair |-> gcj02_to_wgs84(float(row[1]).f, float(row[2]).f).value,
          converted |-> TRUE, raised |-> "none"]

\* One pass of the loop body on a row (coordinate.py:161-171): the pair to
\* record, whether it counts as converted, and the exception that leaves the
\* loop ("none" when the body completes).
ConvertRowBody(row) ==
    LET lng_gcj02 == float(row[1])
        lat_gcj02 == float(row[2])
    IN  IF lng_gcj02.raised # "none" \/ lat_gcj02.raised # "none"
        THEN [pair |-> <<None, None>>, converted |-> FALSE, raised |-> "none"]
        ELSE LET out == gcj02_to_wgs84(lng_gcj02.f, lat_gcj02.f)
             IN  IF out.raised = "none"
                 THEN [pair |-> out.value, converted |-> TRUE, raised |-> "none"]
                 ELSE IF out.raised \in {"ValueError", "TypeError"}
                 THEN [pair |-> <<None, None>>, converted |-> FALSE, raised |-> "none"]
                 ELSE [pair |-> <<None, None>>, converted |-> FALSE, raised |-> out.raised]

\* Mutant: the pair goes to the front of the list.
PrependPair(coords, pair) == <<pair>> \o coords

\* wgs84_coords.append(pair) (coordinate.py:166, 171).
AppendPair(coords, pair) == Append(coords, pair)

\* The choices of --source-crs (coordinate_conversion.py:30).
SourceCrsChoices == {"GCJ02"}

\* Frames given to the script.
MaxBatch == 2
LngCells ==
    {FloatCell(Fin(11640400)), FloatCell(Fin(1000000)), FloatCell(NaN),
     FloatCell(Inf(1)), TextCell("116.404"), TextCell("abc"), NoneCell}
LatCells == {FloatCell(Fin(3991500)), FloatCell(NaN), TextCell("n/a")}
Frames == UNION {[1..n -> LngCells \X LatCells] : n \in 0..MaxBatch}

\* parser.parse_args() (coordinate_conversion.py:24-33): a --source-crs
\* outside the choices ends the script; otherwise main goes on to
\* batch_convert_gcj02_to_wgs84, which reads the frame (lines 57-68,
\* coordinate.py:143-158).
ParseArgs ==
    /\ script_pc = "parse"
    /\ script_pc' = IF args.source_crs \in SourceCrsChoices THEN "loop" ELSE "exit"
    /\ UNCHANGED <<args, df, idx, wgs84_coords, converted_count, columns>>
    /\ UNCHANGED <<giniVars, coordVars>>
    /\ UNCHANGED <<envVars, crawlVars>>

\* One iteration of for idx, row in df.iterrows() (coordinate.py:160-171).
\* An exception that is not caught leaves the method and ends the script
\* (coordinate_conversion.py:78-80).
ConvertRow ==
    /\ script_pc = "loop"
    /\ idx < Len(df)
    /\ LET body == ConvertRowBody(df[idx + 1])
       IN  IF body.raised # "none"
           THEN /\ script_pc' = "exit"
                /\ UNCHANGED <<idx, wgs84_coords, converted_count>>
           ELSE /\ wgs84_coords' = AppendPair(wgs84_coords, body.pair)
                /\ converted_count' = converted_count + (IF body.converted THEN 1 ELSE 0)
                /\ idx' = idx + 1
                /\ UNCHANGED script_pc
    /\ UNCHANGED <<args, df, columns>>
    /\ UNCHANGED <<giniVars, coordVars>>
    /\ UNCHANGED <<envVars, crawlVars>>

\* After the loop: the two columns are assigned, the count is printed and
\* the frame is saved and returned (coordinate.py:174-187).
AssignColumns ==
    /\ script_pc = "loop"
    /\ idx = Len(df)
    /\ columns' = [i \in 1..Len(wgs84_coords) |->
                      [longitude_wgs84 |-> wgs84_coords[i][1],
                       latitude_wgs84 |-> wgs84_coords[i][2]]]
    /\ script_pc' = "done"
    /\ UNCHANGED <<args, df, idx, wgs84_coords, converted_count>>
    /\ UNCHANGED <<giniVars, coordVars>>
    /\ UNCHANGED <<envVars, crawlVars>>

\* Either the API is called once on one converter, or the script is run.
CoordInit ==
    /\ GiniIdle
    /\ CoordIdle
    /\ EnvIdle
    /\ CrawlIdle
    /\ \/ BatchIdle
       \/ /\ args \in [source_crs : {"GCJ02", "gcj02", "WGS84"}]
          /\ script_pc = "parse"
          /\ df \in Frames
          /\ idx = 0
          /\ wgs84_coords = <<>>
          /\ converted_count = 0
          /\ columns = <<>>

CoordNext ==
    \/ \E p \in Points : Gcj02ToWgs84(1, "converter", p[1], p[2])
    \/ \E p \in Points, source_crs \in Datums :
          ConvertSinglePoint(1, "converter", p[1], p[2], source_crs)
    \/ \E coordinates \in Lists : ValidateCoordinates(1, "converter", coordinates)
    \/ \E p \in Points : ValidateCoordinate(1, p[1], p[2])
    \/ ParseArgs
    \/ ConvertRow
    \/ AssignColumns

CoordSpec == CoordInit /\ [][CoordNext]_vars

(***************************************************************************)
(* Vocabulary of the specification for coordinates, on the float values    *)
(* themselves.                                                             *)
(***************************************************************************)
\* The recorded calls of an operation.
CallsOf(op) == {i \in 1..Len(calls) : calls[i].op = op}

Finite(a) == a.k = "fin"
Below(a, bound) == (a.k = "inf" /\ a.x < 0) \/ (a.k = "fin" /\ a.x < bound)
Above(a, bound) == (a.k = "inf" /\ a.x > 0) \/ (a.k = "fin" /\ a.x > bound)

\* A point outside the bounding region [72.004, 137.8347] x [0.8293, 55.8271].
OutsideRegion(lng, lat) ==
    \/ Below(lng, 7200400) \/ Above(lng, 13783470)
    \/ Below(lat, 82930) \/ Above(lat, 5582710)

\* The script has not gone past its command line: no row was
\* looked at, no pair recorded, no column produced.
NothingConverted ==
    /\ idx = 0
    /\ wgs84_coords = <<>>
    /\ converted_count = 0
    /\ columns = <<>>

\* C13 (unsupported source datum): a source datum other than GCJ02 makes
\* convert_single_point raise without a result, and ends the script before
\* any row is converted; the batch method itself takes no datum.
C13_UnsupportedDatum ==
    /\ \A i \in CallsOf("convert_single_point") :
          calls[i].args[3] \notin {"GCJ02", "gcj02"} =>
              calls[i].outcome = Raised("ValueError")
    /\ (script_pc # "idle" /\ args.source_crs # "GCJ02") =>
          (script_pc \in {"parse", "exit"} /\ NothingConverted)

\* Reached: an in-region point given with datum WGS84 was refused.
C13_Witness ==
    \E i \in CallsOf("convert_single_point") :
        /\ calls[i].args = <<Fin(11640400), Fin(3991500), "WGS84">>
        /\ calls[i].outcome.raised = "ValueError"

\* Reached as well: the script given WGS84 on a frame of two rows has ended.
C13_ScriptRefused ==
    /\ script_pc = "exit"
    /\ args.source_crs = "WGS84"
    /\ Len(df) = 2

\* C14 (fail-open): gcj02_to_wgs84 returns a point outside the bounding
\* region exactly as given.
C14_FailOpen ==
    \A i \in CallsOf("gcj02_to_wgs84") :
        OutsideRegion(calls[i].args[1], calls[i].args[2]) =>
            calls[i].outcome = Returned(calls[i].args)

\* Reached: a point whose latitude is in the region and whose longitude is
\* just below it came back unchanged.
C14_Witness ==
    \E i \in CallsOf("gcj02_to_wgs84") :
        /\ calls[i].args = <<Fin(7200399), Fin(3991500)>>
        /\ calls[i].outcome = Returned(<<Fin(7200399), Fin(3991500)>>)

\* C15 (totality): on finite input gcj02_to_wgs84 returns a pair and raises
\* nothing; inside the region 1 - ee*sin^2 and its root are positive, the
\* cosine of the latitude is positive and no divisor is zero.
C15_Total ==
    \A i \in CallsOf("gcj02_to_wgs84") :
        LET lng == calls[i].args[1]
            lat == calls[i].args[2]
        IN  (Finite(lng) /\ Finite(lat)) =>
                /\ calls[i].outcome.raised = "none"
                /\ Len(calls[i].outcome.value) = 2
                /\ Finite(calls[i].outcome.value[1])
                /\ Finite(calls[i].outcome.value[2])
                /\ ~OutsideRegion(lng, lat) =>
                      LET c == Correction(lat.x)
                      IN  /\ c.magic > 0
                          /\ c.sqrtmagic > 0
                          /\ cos(c.radlat) > 0
                          /\ c.magic_sqrtmagic > 0
                          /\ c.lat_divisor > 0
                          /\ c.lng_divisor > 0

\* Reached: the correction of (116.404, 39.915) is (116.39776, 39.91360).
C15_Witness ==
    \E i \in CallsOf("gcj02_to_wgs84") :
        /\ calls[i].args = <<Fin(11640400), Fin(3991500)>>
        /\ calls[i].outcome = Returned(<<Fin(11639776), Fin(3991360)>>)

\* Validity as the specification states it.
ValidAsSpecified(lng, lat) ==
    /\ lng.k # "nan" /\ lat.k # "nan"
    /\ lng.k = "fin" /\ -18000000 <= lng.x /\ lng.x <= 18000000
    /\ lat.k = "fin" /\ -9000000 <= lat.x /\ lat.x <= 9000000

\* C16 (validation): validate_coordinate returns, and validate_coordinates
\* returns for each element in input order, true iff -180 <= longitude <= 180,
\* -90 <= latitude <= 90 and neither is NaN; so the two agree.
C16_Validation ==
    /\ \A i \in CallsOf("validate_coordinate") :
          calls[i].outcome.value = ValidAsSpecified(calls[i].args[1], calls[i].args[2])
    /\ \A i \in CallsOf("validate_coordinates") :
          /\ Len(calls[i].outcome.value) = Len(calls[i].args)
          /\ \A j \in 1..Len(calls[i].args) :
                calls[i].outcome.value[j]
                    = ValidAsSpecified(calls[i].args[j][1], calls[i].args[j][2])

\* Reached: a list whose first pair is on the bounds and whose second has a
\* NaN was validated as <<TRUE, FALSE>>.
C16_Witness ==
    \E i \in CallsOf("validate_coordinates") :
        /\ calls[i].args = <<<<Fin(18000000), Fin(-9000000)>>, <<NaN, Fin(0)>>>>
        /\ calls[i].outcome.value = <<TRUE, FALSE>>

(***************************************************************************)
(* The batch conversion.                                                   *)
(***************************************************************************)
\* A cell that cannot be interpreted as a finite number: unparseable text,
\* missing (None or NaN), or infinite.
NotFiniteCell(cell) ==
    \/ cell.kind = "none"
    \/ cell.kind = "float" /\ cell.f.k # "fin"
    \/ cell.kind = "text" /\ cell.t \notin {"116.404", "39.915"}
Malformed(row) == NotFiniteCell(row[1]) \/ NotFiniteCell(row[2])

\* A cell float() refuses.
Unparseable(cell) == float(cell).raised # "none"

\* The pair of output row i.
OutputPair(i) == <<columns[i].longitude_wgs84, columns[i].latitude_wgs84>>

\* C11 (per-row isolation): when exactly one row of the batch cannot be
\* interpreted as a finite number, exactly that row is marked (None, None),
\* the batch does not abort and the success count is N - 1.
C11_RowIsolation ==
    (script_pc \in {"done", "exit"} /\ args.source_crs = "GCJ02"
        /\ Cardinality({i \in 1..Len(df) : Malformed(df[i])}) = 1) =>
        /\ script_pc = "done"
        /\ Len(columns) = Len(df)
        /\ \A i \in 1..Len(df) : Malformed(df[i]) <=> OutputPair(i) = <<None, None>>
        /\ converted_count = Len(df) - 1

\* What the code does keep of C11: the isolation of a row float() refuses.
C11_IsolatedWhenRefused ==
    (script_pc \in {"done", "exit"} /\ args.source_crs = "GCJ02"
        /\ Cardinality({i \in 1..Len(df) :
                            Unparseable(df[i][1]) \/ Unparseable(df[i][2])}) = 1) =>
        /\ script_pc = "done"
        /\ Len(columns) = Len(df)
        /\ \A i \in 1..Len(df) :
              (Unparseable(df[i][1]) \/ Unparseable(df[i][2]))
                  <=> OutputPair(i) = <<None, None>>
        /\ converted_count = Len(df) - 1

\* The conversion of a row's own longitude and latitude, or the marker.
OwnPair(row) ==
    IF Unparseable(row[1]) \/ Unparseable(row[2]) THEN <<None, None>>
    ELSE gcj02_to_wgs84(float(row[1]).f, float(row[2]).f).value

\* C12 (order preservation): through the loop the pair recorded at position
\* i is that of row i, whatever rows failed before; the frame returned has as
\* many rows as the input, in input order, row i carrying row i's own pair.
C12_OrderPreserved ==
    script_pc \in {"loop", "done"} =>
        /\ Len(wgs84_coords) = idx
        /\ \A i \in 1..idx : wgs84_coords[i] = OwnPair(df[i])
        /\ script_pc = "done" =>
              /\ Len(columns) = Len(df)
              /\ \A i \in 1..Len(df) : OutputPair(i) = OwnPair(df[i])

\* Reached: a frame whose first row failed and whose second row was
\* corrected has been returned.
C12_Witness ==
    /\ script_pc = "done"
    /\ Len(df) = 2
    /\ df[1] = <<TextCell("abc"), FloatCell(Fin(3991500))>>
    /\ df[2] = <<FloatCell(Fin(11640400)), FloatCell(Fin(3991500))>>
    /\ OutputPair(1) = <<None, None>>
    /\ OutputPair(2) = <<Fin(11639776), Fin(3991360)>>

(***************************************************************************)
(* A session: several calls, on two converters, one after the other.       *)
(***************************************************************************)
MaxCalls == 3
Instances == {"converter_a", "converter_b"}
SessionPoints == {<<Fin(11640400), Fin(3991500)>>, <<Fin(7200399), Fin(3991500)>>}

SessionInit ==
    /\ GiniIdle
    /\ CoordIdle
    /\ EnvIdle
    /\ CrawlIdle
    /\ BatchIdle

SessionNext ==
    \/ \E self \in Instances, p \in SessionPoints :
          Gcj02ToWgs84(MaxCalls, self, p[1], p[2])
    \/ \E self \in Instances, p \in SessionPoints :
          ConvertSinglePoint(MaxCalls, self, p[1], p[2], "GCJ02")
    \/ \E self \in Instances, p \in SessionPoints :
          ValidateCoordinates(MaxCalls, self, <<p>>)
    \/ \E p \in SessionPoints : ValidateCoordinate(MaxCalls, p[1], p[2])

SessionSpec == SessionInit /\ [][SessionNext]_vars

\* C20 (determinism): two calls of gcj02_to_wgs84 with the same longitude
\* and latitude have the same outcome, whatever their order, whichever the
\* converter, and whatever was called in between.
C20_Deterministic ==
    \A i, j \in CallsOf("gcj02_to_wgs84") :
        calls[i].args = calls[j].args => calls[i].outcome = calls[j].outcome

\* Reached: the same in-region point corrected on one converter, then,
\* after a call of convert_single_point on that converter, on the other,
\* with the same result.
C20_Witness ==
    /\ Len(calls) = 3
    /\ calls[1].op = "gcj02_to_wgs84" /\ calls[1].self = "converter_a"
    /\ calls[2].op = "convert_single_point" /\ calls[2].self = "converter_a"
    /\ calls[3].op = "gcj02_to_wgs84" /\ calls[3].self = "converter_b"
    /\ calls[1].args = <<Fin(11640400), Fin(3991500)>>
    /\ calls[3].args = calls[1].args
    /\ calls[3].outcome = Returned(<<Fin(11639776), Fin(3991360)>>)

(***************************************************************************)
(* generate_gini_report called on a file (gini.py:172-214).                *)
(***************************************************************************)
\* The title line of a CSV file; its cells are never interpreted.
TitleLine == Row(0, Str(<<>>), Str(<<>>), Str(<<>>), Str(<<>>))

\* Input files: the empty file, and a title line followed by a table.
ReportTables == Tables(PlainRows(TextLevels), MaxRows - 1) \cup {test_data}
ReportFiles == {<<>>} \cup {<<TitleLine>> \o table : table \in ReportTables}

\* next(csv_reader), then every remaining row (gini.py:187-189).
ReadRows(lines) == Tail(lines)

\* Mutant: the report is exported whether or not output_file is given.
ExportAlways(output_file) == {output_file}

\* The files written: _export_to_excel saves the workbook to output_file
\* when one is given (gini.py:201-205, 264).
ExportedFiles(output_file) == IF output_file # "" THEN {output_file} ELSE {}

ReportInit ==
    /\ report_call \in [input_file : {"units.csv"},
                        output_file : {"", "report.xlsx"},
                        lines : ReportFiles]
    /\ pc = "report"
    /\ data = <<>>
    /\ basic_stats = NoStats
    /\ summary_table = <<>>
    /\ gini_coefficient = Zero
    /\ gini_results = NoResults
    /\ storage = NoStorage
    /\ CoordIdle
    /\ EnvIdle
    /\ CrawlIdle
    /\ BatchIdle

\* generate_gini_report returns: the file is read, the three operations are
\* applied to its rows, the report is exported (gini.py:184-214).
GenerateGiniReport ==
    /\ pc = "report"
    /\ report_call.lines # <<>>
    /\ LET rows == ReadRows(report_call.lines)
       IN  /\ ~PrepareRaises(rows)
           /\ data' = rows
           /\ basic_stats' = calculate_basic_stats(rows)
           /\ summary_table' = prepare_gini_data(rows)
           /\ \E order \in Argsorts(prepare_gini_data(rows)) :
                 LET out == calculate_gini_coefficient(prepare_gini_data(rows), order)
                 IN  /\ gini_coefficient' = out.gini_coefficient
                     /\ gini_results' = out.results
    /\ storage' = [read |-> {report_call.input_file},
                   written |-> ExportedFiles(report_call.output_file)]
    /\ pc' = "done"
    /\ UNCHANGED <<report_call, coordVars, batchVars>>
    /\ UNCHANGED <<envVars, crawlVars>>

\* generate_gini_report raises: StopIteration from next() on an empty file
\* (gini.py:187), or ZeroDivisionError from prepare_gini_data (gini.py:195),
\* after calculate_basic_stats has run.
GenerateGiniReportRaises ==
    /\ pc = "report"
    /\ \/ /\ report_call.lines = <<>>
          /\ UNCHANGED <<data, basic_stats>>
       \/ /\ report_call.lines # <<>>
          /\ PrepareRaises(ReadRows(report_call.lines))
          /\ data' = ReadRows(report_call.lines)
          /\ basic_stats' = calculate_basic_stats(ReadRows(report_call.lines))
    /\ storage' = [read |-> {report_call.input_file}, written |-> {}]
    /\ pc' = "raised"
    /\ UNCHANGED <<summary_table, gini_coefficient, gini_results, report_call>>
    /\ UNCHANGED <<coordVars, batchVars>>
    /\ UNCHANGED <<envVars, crawlVars>>

ReportNext ==
    \/ GenerateGiniReport
    \/ GenerateGiniReportRaises

ReportSpec == ReportInit /\ [][ReportNext]_vars

\* The units of a report: the lines of the input file after the title line.
ReportUnits == ReadRows(report_call.lines)

\* The results are the composition of the three operations on the units.
ReportIsComposition ==
    /\ basic_stats = calculate_basic_stats(ReportUnits)
    /\ \E order \in Argsorts(prepare_gini_data(ReportUnits)) :
          LET out == calculate_gini_coefficient(prepare_gini_data(ReportUnits), order)
          IN  /\ gini_coefficient = out.gini_coefficient
              /\ gini_results = out.results

SummaryPopulation ==
    SumSeq([k \in 1..Len(summary_table) |-> summary_table[k].population],
           Len(summary_table))

\* C25 (agreement on served units): calculate_basic_stats and
\* prepare_gini_data count the same units as served, so valid_population
\* equals the sum of the summary table's population column, for level cells
\* given as numbers or as texts such as '0' and '00'.
C25_SameServedUnits ==
    Prepared => basic_stats.valid_population = RInt(SummaryPopulation)

\* What the code does keep of C25: agreement on one-character level texts.
C25_AgreeOnPlainText == PlainTextLevels => C25_SameServedUnits

\* Totals of the summary table, and its groups of positive population.
SummaryWeighted ==
    SumSeq([k \in 1..Len(summary_table) |-> summary_table[k].weighted_value],
           Len(summary_table))
Populated(rows) == {k \in 1..Len(rows) : rows[k].population > 0}

\* C26 (advantage ratio is proportional to the level): a group of positive
\* population has advantage_ratio = service_level * (total population / total
\* weighted population); such groups never tie, and the sort puts them in
\* ascending order of service_level.
C26_RatioFollowsLevel ==
    Prepared =>
        /\ \A k \in Populated(summary_table) :
              summary_table[k].weight_pop_ratio
                  = Ratio(summary_table[k].gather_level * SummaryPopulation,
                          SummaryWeighted)
        /\ \A k, l \in Populated(summary_table) :
              k # l => summary_table[k].weight_pop_ratio
                           # summary_table[l].weight_pop_ratio
        /\ pc = "done" =>
              \A i, j \in Populated(gini_results.sorted_table) :
                  i < j => gini_results.sorted_table[i].gather_level
                               < gini_results.sorted_table[j].gather_level

\* Reached: three populated groups met in the order of levels 3, 1, 2 and
\* sorted into 1, 2, 3.
C26_Witness ==
    /\ pc = "done"
    /\ Len(summary_table) = 3
    /\ Populated(summary_table) = {1, 2, 3}
    /\ summary_table[1].gather_level = 3
    /\ summary_table[2].gather_level = 1
    /\ gini_results.sorted_table[1].gather_level = 1
    /\ gini_results.sorted_table[3].gather_level = 3

\* The rows of a table in another order.
Reordered(rows, f) == [i \in 1..Len(rows) |-> rows[f[i]]]

\* The coefficients prepare_gini_data followed by calculate_gini_coefficient
\* may return on a table, over the orders the sort may choose among ties.
Coefficients(rows) ==
    {calculate_gini_coefficient(prepare_gini_data(rows), order).gini_coefficient :
        order \in Argsorts(prepare_gini_data(rows))}

\* Input tables for the comparison of orders: one table per collection of
\* units, its rows standing by population, then level; every other order of
\* the same units is reached through Reordered.
RowKey(row) == row.population * (MaxLevel + 1) + int(row.gather)
OrderRows == PlainRows({Str(<<d>>) : d \in 0..MaxLevel})
OrderInputs ==
    {t \in Tables(OrderRows, MaxRows) :
        \A i \in 1..(Len(t) - 1) : RowKey(t[i]) <= RowKey(t[i + 1])}
        \cup {test_data}

OrderInit ==
    /\ data \in OrderInputs
    /\ pc = "stats"
    /\ basic_stats = NoStats
    /\ summary_table = <<>>
    /\ gini_coefficient = Zero
    /\ gini_results = NoResults
    /\ report_call = NoReportCall
    /\ storage = NoStorage
    /\ CoordIdle
    /\ EnvIdle
    /\ CrawlIdle
    /\ BatchIdle

OrderSpec == OrderInit /\ [][Next]_vars

\* C27 (order independence): every permutation of the input units, with
\* every arrangement of tied rows by the sort, gives the coefficient that
\* was returned.
C27_OrderIndependent ==
    pc = "done" =>
        \A f \in IndexOrders(Len(data)) :
            /\ ~PrepareRaises(Reordered(data, f))
            /\ Coefficients(Reordered(data, f)) = {gini_coefficient}

\* Reached: a table of three units whose groups are met in descending
\* order of level, with rows tied on advantage_ratio.
C27_Witness ==
    /\ pc = "done"
    /\ Len(data) = 3
    /\ Len(summary_table) = 3
    /\ Cardinality(Argsorts(summary_table)) > 1
    /\ summary_table[1].gather_level > summary_table[3].gather_level

\* C28 (Lorenz curve under the equality line): at every index of the
\* cumulative sequences the cumulative weighted share is at most the
\* cumulative population share.
C28_LorenzBelowEquality ==
    pc = "done" =>
        \A i \in 1..Len(gini_results.cum_pop_ratio) :
            RLeq(gini_results.cum_weight_ratio[i], gini_results.cum_pop_ratio[i])

\* Reached: two populated groups, the curve strictly under the line after
\* the first.
C28_Witness ==
    /\ pc = "done"
    /\ Len(summary_table) = 2
    /\ Populated(summary_table) = {1, 2}
    /\ RLess(gini_results.cum_weight_ratio[2], gini_results.cum_pop_ratio[2])

\* C29 (batch accounting): through the row loop the number of pairs
\* recorded is the number of rows processed and converted_count is the
\* number of recorded pairs other than (None, None); on return a row's
\* longitude_wgs84 is None exactly when its latitude_wgs84 is None, and
\* converted_count is at most the number of rows.
C29_BatchAccounting ==
    script_pc \in {"loop", "done"} =>
        /\ Len(wgs84_coords) = idx
        /\ converted_count
              = Cardinality({i \in 1..Len(wgs84_coords) :
                                wgs84_coords[i] # <<None, None>>})
        /\ script_pc = "done" =>
              /\ Len(columns) = Len(df)
              /\ \A i \in 1..Len(columns) :
                    columns[i].longitude_wgs84 = None
                        <=> columns[i].latitude_wgs84 = None
              /\ converted_count <= Len(df)

\* Reached: in the middle of the loop, after a first row that failed and
\* before a second row.
C29_Witness ==
    /\ script_pc = "loop"
    /\ Len(df) = 2
    /\ idx = 1
    /\ wgs84_coords = <<<<None, None>>>>
    /\ converted_count = 0

\* A finite point inside the bounding region, bounds included.
InsideRegion(lng, lat) ==
    /\ Finite(lng) /\ 7200400 <= lng.x /\ lng.x <= 13783470
    /\ Finite(lat) /\ 82930 <= lat.x /\ lat.x <= 5582710

\* C22 (corrected coordinates stay valid): for a valid point inside the
\* bounding region, the point gcj02_to_wgs84 returns passes validation.
C22_CorrectedStaysValid ==
    \A i \in CallsOf("gcj02_to_wgs84") :
        (InsideRegion(calls[i].args[1], calls[i].args[2])
            /\ ValidAsSpecified(calls[i].args[1], calls[i].args[2])) =>
            /\ calls[i].outcome.raised = "none"
            /\ ValidAsSpecified(calls[i].outcome.value[1], calls[i].outcome.value[2])

\* Reached: the north-east corner of the region, (137.8347, 55.8271), was
\* corrected to (137.82568, 55.82459).
C22_Witness ==
    \E i \in CallsOf("gcj02_to_wgs84") :
        /\ calls[i].args = <<Fin(13783470), Fin(5582710)>>
        /\ calls[i].outcome = Returned(<<Fin(13782568), Fin(5582459)>>)

-----------------------------------------------------------------------------
\* DataValidator.clean_dataframe and FileProcessor's CSV functions (utils.py).

\* A DataFrame: column labels, index labels and rows; a row maps each column
\* label to its cell. NA is the missing value (None, NaN).
NA == "NA"
isna(cell) == cell = NA
Frame(cols, index, rows) == [columns |-> cols, index |-> index, rows |-> rows]
Labels(seq) == {seq[i] : i \in 1..Len(seq)}

\* The positions of the rows that a row test keeps, in order.
RECURSIVE Kept(_, _, _)
Kept(frame, keep, i) ==
    IF i > Len(frame.rows) THEN <<>>
    ELSE (IF keep[i] THEN <<i>> ELSE <<>>) \o Kept(frame, keep, i + 1)

\* The frame restricted to the rows at the given positions; every row keeps
\* its index label.
Take(frame, positions) ==
    Frame(frame.columns,
          [k \in 1..Len(positions) |-> frame.index[positions[k]]],
          [k \in 1..Len(positions) |-> frame.rows[positions[k]]])

\* df.dropna(how='all') (utils.py:352): drops the rows whose cells are all NA.
dropna_all(frame) ==
    Take(frame,
         Kept(frame,
              [i \in 1..Len(frame.rows) |->
                  \E c \in Labels(frame.columns) : ~isna(frame.rows[i][c])],
              1))

\* df.dropna(subset=...) (utils.py:356): drops the rows with an NA in one of
\* the columns of subset.
dropna_subset(frame, subset) ==
    Take(frame,
         Kept(frame,
              [i \in 1..Len(frame.rows) |->
                  \A c \in Labels(subset) : ~isna(frame.rows[i][c])],
              1))

\* df.reset_index(drop=True) (utils.py:359): the index becomes 0..n-1.
reset_index(frame) ==
    Frame(frame.columns, [k \in 1..Len(frame.rows) |-> k - 1], frame.rows)

\* clean_dataframe(df, drop_na_columns) (utils.py:338-362). pandas raises
\* KeyError for a label of subset that is not a column. The columns are never
\* touched.
clean_dataframe(frame, drop_na_columns) ==
    IF drop_na_columns # <<>> /\ ~(Labels(drop_na_columns) \subseteq Labels(frame.columns))
    THEN Raised("KeyError")
    ELSE Returned(reset_index(
             IF drop_na_columns # <<>>
             THEN dropna_subset(dropna_all(frame), drop_na_columns)
             ELSE dropna_all(frame)))

\* A CSV cell: a text (its characters), an integer or None.
CsvText(chars) == [kind |-> "text", chars |-> chars, n |-> 0]
CsvInt(n) == [kind |-> "int", chars |-> <<>>, n |-> n]
CsvNone == [kind |-> "none", chars |-> <<>>, n |-> 0]
CR == "\r"
LF == "\n"

\* What csv.writer writes for a cell (utils.py:215-216): str(cell), and the
\* empty text for None. Quoting keeps the characters of the field as they are.
Digits == <<"0", "1", "2", "3", "4", "5", "6", "7", "8", "9">>
RECURSIVE str(_)
str(n) == IF n < 10 THEN <<Digits[n + 1]>> ELSE str(n \div 10) \o <<Digits[(n % 10) + 1]>>
Field(cell) ==
    CASE cell.kind = "text" -> cell.chars
      [] cell.kind = "int" -> str(cell.n)
      [] OTHER -> <<>>
writerow(row) == [k \in 1..Len(row) |-> Field(row[k])]
writerows(csv_data) == [i \in 1..Len(csv_data) |-> writerow(csv_data[i])]

\* open(file_path, 'r') without newline='' (utils.py:188): the text layer
\* turns "\r\n" and "\r" into "\n" before csv.reader sees the characters,
\* within quoted fields too.
RECURSIVE translate(_)
translate(chars) ==
    IF chars = <<>> THEN <<>>
    ELSE IF Head(chars) = CR
         THEN <<LF>> \o translate(IF Len(chars) > 1 /\ chars[2] = LF
                                  THEN Tail(Tail(chars)) ELSE Tail(chars))
         ELSE <<Head(chars)>> \o translate(Tail(chars))

\* What csv.reader returns for the lines of a file: every field is a text.
reader(lines) ==
    [i \in 1..Len(lines) |->
        [k \in 1..Len(lines[i]) |-> CsvText(translate(lines[i][k]))]]

\* read_csv_data(file_path) (utils.py:173-194): next() takes the first line,
\* the others are returned; a missing file and an empty file (StopIteration)
\* are re-raised as Exception.
read_csv_data(fs, file_path) ==
    IF ~fs[file_path].exists \/ fs[file_path].lines = <<>>
    THEN Raised("Exception")
    ELSE Returned(Tail(reader(fs[file_path].lines)))

\* The inputs.
MaxFrameRows == 2
MaxCsvRows == 2
FrameColumns == <<"name", "population", "empty_col">>
FrameRows == [Labels(FrameColumns) -> {NA, "1"}]
RECURSIVE SeqsUpTo(_, _)
SeqsUpTo(S, n) ==
    IF n = 0 THEN {<<>>}
    ELSE LET shorter == SeqsUpTo(S, n - 1)
         IN shorter \cup {Append(q, x) : q \in {p \in shorter : Len(p) = n - 1}, x \in S}
\* The table of test_clean_dataframe (test_utils.py:51-56).
TestFrame ==
    Frame(<<"id", "name", "population", "empty_col">>, <<0, 1, 2, 3, 4>>,
          << [id |-> "1", name |-> "A", population |-> "100", empty_col |-> NA],
             [id |-> "2", name |-> "B", population |-> "200", empty_col |-> NA],
             [id |-> "3", name |-> NA, population |-> "300", empty_col |-> NA],
             [id |-> "4", name |-> "D", population |-> NA, empty_col |-> NA],
             [id |-> "5", name |-> "E", population |-> "500", empty_col |-> NA] >>)
\* Frames with the default index 0..n-1 and with the index 1..n.
InputFrames ==
    {TestFrame} \cup
    {Frame(FrameColumns, [k \in 1..Len(rows) |-> k - 1 + shift], rows) :
        rows \in SeqsUpTo(FrameRows, MaxFrameRows), shift \in {0, 1}}
DropNaColumns == {<<>>, <<"population">>, <<"density">>}

CsvCells ==
    {CsvText(<<"A">>), CsvText(<<"1">>), CsvText(<<"a", CR, "b">>), CsvText(<<"a", CR, LF, "b">>),
     CsvText(<<"a", LF, "b">>), CsvInt(1), CsvInt(12), CsvNone}
CsvRows == {<<c>> : c \in CsvCells} \cup {<<>>}
\* The rows and headers of test_read_write_csv_data (test_utils.py:85-90).
TestCsvData ==
    << <<CsvText(<<"1">>), CsvText(<<"A">>), CsvText(<<"1", "0", "0">>)>>,
       <<CsvText(<<"2">>), CsvText(<<"B">>), CsvText(<<"2", "0", "0">>)>>,
       <<CsvText(<<"3">>), CsvText(<<"C">>), CsvText(<<"3", "0", "0">>)>> >>
CsvData == {TestCsvData} \cup SeqsUpTo(CsvRows, MaxCsvRows)
CsvHeaders == {<<>>, <<CsvText(<<"i", "d">>)>>}
CsvPaths == {"test.csv"}

\* DataValidator.clean_dataframe(df, drop_na_columns) is called.
CleanDataframe(frame, drop_na_columns) ==
    /\ calls = <<>>
    /\ script_pc = "idle"
    /\ calls' = Append(calls, CallRecord("DataValidator", "clean_dataframe",
                                        <<frame, drop_na_columns>>,
                                        clean_dataframe(frame, drop_na_columns)))
    /\ UNCHANGED <<class_attrs, giniVars, batchVars, envVars, crawlVars>>

\* FileProcessor.write_csv_data(data, file_path, headers) succeeds
\* (utils.py:211-217): the header row, if one is given, then the rows.
WriteCsvData(csv_data, file_path, headers) ==
    /\ calls = <<>>
    /\ script_pc = "idle"
    /\ files' = [files EXCEPT ![file_path] =
                    [exists |-> TRUE,
                     lines |-> (IF headers # <<>> THEN <<writerow(headers)>> ELSE <<>>)
                               \o writerows(csv_data)]]
    /\ calls' = Append(calls, CallRecord("FileProcessor", "write_csv_data",
                                        <<csv_data, file_path, headers>>, Returned(TRUE)))
    /\ UNCHANGED <<class_attrs, giniVars, batchVars, np_printoptions, crawlVars>>

\* write_csv_data cannot open the file (utils.py:218-220): it returns False.
WriteCsvDataFails(csv_data, file_path, headers) ==
    /\ calls = <<>>
    /\ script_pc = "idle"
    /\ calls' = Append(calls, CallRecord("FileProcessor", "write_csv_data",
                                        <<csv_data, file_path, headers>>, Returned(FALSE)))
    /\ UNCHANGED <<class_attrs, giniVars, batchVars, envVars, crawlVars>>

\* FileProcessor.read_csv_data(file_path) is called.
ReadCsvData(file_path) ==
    /\ CanCall(MaxCalls)
    /\ calls' = Append(calls, CallRecord("FileProcessor", "read_csv_data",
                                        <<file_path>>, read_csv_data(files, file_path)))
    /\ UNCHANGED <<class_attrs, giniVars, batchVars, envVars, crawlVars>>

UtilsInit ==
    /\ GiniIdle
    /\ CoordIdle
    /\ BatchIdle
    /\ EnvIdle
    /\ CrawlIdle

UtilsNext ==
    \/ \E frame \in InputFrames, drop_na_columns \in DropNaColumns :
          CleanDataframe(frame, drop_na_columns)
    \/ \E csv_data \in CsvData, file_path \in CsvPaths, headers \in CsvHeaders :
          \/ WriteCsvData(csv_data, file_path, headers)
          \/ WriteCsvDataFails(csv_data, file_path, headers)
    \/ \E file_path \in CsvPaths : ReadCsvData(file_path)

UtilsSpec == UtilsInit /\ [][UtilsNext]_vars

\* The rows of a frame that are not all NA and have no NA in the columns of
\* subset, in order.
RECURSIVE CleanRows(_, _, _)
CleanRows(frame, subset, i) ==
    IF i > Len(frame.rows) THEN <<>>
    ELSE (IF /\ \E c \in Labels(frame.columns) : frame.rows[i][c] # NA
             /\ \A c \in Labels(subset) : frame.rows[i][c] # NA
          THEN <<frame.rows[i]>> ELSE <<>>) \o CleanRows(frame, subset, i + 1)

\* A column of a frame with rows whose cells are all NA.
AllEmptyColumn(frame, c) ==
    /\ frame.rows # <<>>
    /\ \A i \in 1..Len(frame.rows) : frame.rows[i][c] = NA

CleanedAsSpecified(frame, subset, cleaned) ==
    /\ cleaned.rows = CleanRows(frame, subset, 1)
    /\ cleaned.index = [k \in 1..Len(cleaned.rows) |-> k - 1]

\* C23: clean_dataframe removes the rows that are entirely empty and the rows
\* with an empty value in one of drop_na_columns, removes the columns that
\* are entirely empty, and re-indexes the remaining rows 0..n-1 in their
\* original order.
C23_CleanDataframe ==
    \A i \in CallsOf("clean_dataframe") :
        calls[i].outcome.raised = "none" =>
            /\ CleanedAsSpecified(calls[i].args[1], calls[i].args[2], calls[i].outcome.value)
            /\ \A c \in Labels(calls[i].args[1].columns) :
                  AllEmptyColumn(calls[i].args[1], c) =>
                      c \notin Labels(calls[i].outcome.value.columns)

\* C23, the rows alone: the rows that are entirely empty or empty in one of
\* drop_na_columns are removed, the others are re-indexed 0..n-1 in order,
\* and the columns stay as they were.
C23_RowsCleaned ==
    \A i \in CallsOf("clean_dataframe") :
        calls[i].outcome.raised = "none" =>
            /\ CleanedAsSpecified(calls[i].args[1], calls[i].args[2], calls[i].outcome.value)
            /\ calls[i].outcome.value.columns = calls[i].args[1].columns

\* The test table cleaned on population: 4 rows, and empty_col still there.
C23_TestTable ==
    \E i \in CallsOf("clean_dataframe") :
        /\ calls[i].args = <<TestFrame, <<"population">> >>
        /\ calls[i].outcome.raised = "none"
        /\ Len(calls[i].outcome.value.rows) = 4
        /\ "empty_col" \in Labels(calls[i].outcome.value.columns)

\* A write that returned True with a header row, and the read that follows.
RoundTrip(i, j) ==
    /\ i \in CallsOf("write_csv_data")
    /\ j \in CallsOf("read_csv_data")
    /\ i < j
    /\ calls[i].args[3] # <<>>
    /\ calls[i].outcome.value = TRUE
    /\ calls[j].args[1] = calls[i].args[2]

\* C24: after write_csv_data(data, path, headers) returned True with a header
\* row given, read_csv_data(path) returns exactly the rows of data, in order,
\* without the header row.
C24_RoundTrip ==
    \A i, j \in 1..Len(calls) :
        RoundTrip(i, j) =>
            /\ calls[j].outcome.raised = "none"
            /\ calls[j].outcome.value = calls[i].args[1]

\* The cells that come back as they were written: texts without a carriage
\* return.
PlainText(cell) ==
    /\ cell.kind = "text"
    /\ \A k \in 1..Len(cell.chars) : cell.chars[k] # CR
PlainData(csv_data) ==
    \A r \in 1..Len(csv_data) : \A k \in 1..Len(csv_data[r]) : PlainText(csv_data[r][k])

\* C24 for rows of texts without carriage returns: the read returns the rows
\* written, in order, without the header row.
C24_RoundTripOfPlainText ==
    \A i, j \in 1..Len(calls) :
        RoundTrip(i, j) /\ PlainData(calls[i].args[1]) =>
            /\ calls[j].outcome.raised = "none"
            /\ calls[j].outcome.value = calls[i].args[1]

\* The rows of the test are written with their header and read back.
C24_TestRoundTrip ==
    \E i, j \in 1..Len(calls) :
        /\ RoundTrip(i, j)
        /\ calls[i].args[1] = TestCsvData
        /\ calls[j].outcome = Returned(TestCsvData)

\* A text with a carriage return comes back with a line feed.
C24_CarriageReturnLost ==
    \E i, j \in 1..Len(calls) :
        /\ RoundTrip(i, j)
        /\ calls[i].args[1] = << <<CsvText(<<"a", CR, "b">>)>> >>
        /\ calls[j].outcome = Returned(<< <<CsvText(<<"a", LF, "b">>)>> >>)

-----------------------------------------------------------------------------
\* BusDataCrawler.crawl_all_bus_stops (crawlers.py).

MaxCategories == 2
MaxLines == 2

\* The page of line k of category c as a request finds it: the request and
\* the parsing succeed or not, and the page lists two stops, the second of
\* which is also a stop of the next line. A stop name is written as its rank
\* in the sorted order of the names.
LinePage(c, k, ok) == [url |-> <<c, k>>, ok |-> ok, stops |-> {c + k - 1, c + k}]
LineLists(c) ==
    UNION {{[k \in 1..n |-> LinePage(c, k, f[k])] : f \in [1..n -> BOOLEAN]} :
              n \in 0..MaxLines}
\* The page of category c: its request fails, or it lists lines.
CategoryPages(c) ==
    {[name |-> c, ok |-> FALSE, lines |-> <<>>]} \cup
    {[name |-> c, ok |-> TRUE, lines |-> l] : l \in LineLists(c)}
RECURSIVE CategoryLists(_)
CategoryLists(n) ==
    IF n = 0 THEN {<<>>}
    ELSE {Append(q, p) : q \in CategoryLists(n - 1), p \in CategoryPages(n)}
\* The site: the request of the city page fails, or it lists categories with
\* distinct names (they are the keys of a dict, crawlers.py:59-68).
Sites ==
    {NoSite} \cup
    {[ok |-> TRUE, categories |-> cats] :
        cats \in UNION {CategoryLists(n) : n \in 0..MaxCategories}}
OutputFiles == {"", "stops.txt"}

\* Mutant: the stops of the page whatever happened to the request.
get_bus_stops_from_line_unguarded(page) == page.stops

\* get_bus_stops_from_line(line_url) (crawlers.py:114-146): the stops of the
\* page, and the empty set when anything raised.
get_bus_stops_from_line(page) == IF page.ok THEN page.stops ELSE {}

\* sorted(all_stops) (crawlers.py:193).
RECURSIVE sorted(_)
sorted(S) ==
    IF S = {} THEN <<>>
    ELSE LET least == CHOOSE x \in S : \A y \in S : x <= y
         IN <<least>> \o sorted(S \ {least})

\* categories = self.get_bus_categories(city) returns (crawlers.py:162).
GetBusCategories ==
    /\ crawl_pc = "categories"
    /\ site.ok
    /\ categories' = site.categories
    /\ crawl_pc' = "lines"
    /\ UNCHANGED <<site, crawl_args, cat_idx, bus_lines, line_idx, all_stops,
                   line_count, requests>>
    /\ UNCHANGED <<giniVars, coordVars, batchVars, envVars>>

\* get_bus_categories raises (crawlers.py:72-73): the exception leaves
\* crawl_all_bus_stops.
GetBusCategoriesRaises ==
    /\ crawl_pc = "categories"
    /\ ~site.ok
    /\ crawl_pc' = "raised"
    /\ UNCHANGED <<site, crawl_args, categories, cat_idx, bus_lines, line_idx,
                   all_stops, line_count, requests>>
    /\ UNCHANGED <<giniVars, coordVars, batchVars, envVars>>

\* The next category: bus_lines = self.get_bus_lines(category_url) returns
\* (crawlers.py:169-173).
GetBusLines ==
    /\ crawl_pc = "lines"
    /\ cat_idx < Len(categories)
    /\ categories[cat_idx + 1].ok
    /\ bus_lines' = categories[cat_idx + 1].lines
    /\ cat_idx' = cat_idx + 1
    /\ line_idx' = 0
    /\ crawl_pc' = IF bus_lines' = <<>> THEN "lines" ELSE "stops"
    /\ UNCHANGED <<site, crawl_args, categories, all_stops, line_count, requests>>
    /\ UNCHANGED <<giniVars, coordVars, batchVars, envVars>>

\* get_bus_lines raises (crawlers.py:111-112): the exception leaves
\* crawl_all_bus_stops.
GetBusLinesRaises ==
    /\ crawl_pc = "lines"
    /\ cat_idx < Len(categories)
    /\ ~categories[cat_idx + 1].ok
    /\ crawl_pc' = "raised"
    /\ UNCHANGED <<site, crawl_args, categories, cat_idx, bus_lines, line_idx,
                   all_stops, line_count, requests>>
    /\ UNCHANGED <<giniVars, coordVars, batchVars, envVars>>

\* One turn of the loop over the lines (crawlers.py:177-186).
GetBusStopsFromLine ==
    /\ crawl_pc = "stops"
    /\ line_idx < Len(bus_lines)
    /\ requests' = Append(requests, bus_lines[line_idx + 1].url)
    /\ all_stops' = all_stops \cup get_bus_stops_from_line(bus_lines[line_idx + 1])
    /\ line_count' = line_count + 1
    /\ line_idx' = line_idx + 1
    /\ crawl_pc' = IF line_idx' = Len(bus_lines) THEN "lines" ELSE "stops"
    /\ UNCHANGED <<site, crawl_args, categories, cat_idx, bus_lines>>
    /\ UNCHANGED <<giniVars, coordVars, batchVars, envVars>>

\* After the last category (crawlers.py:188-197): the stops are written to
\* output_file if one is given, and all_stops is returned.
SaveStops ==
    /\ crawl_pc = "lines"
    /\ cat_idx = Len(categories)
    /\ files' = IF crawl_args.output_file # ""
                THEN [files EXCEPT ![crawl_args.output_file] =
                         [exists |-> TRUE, lines |-> sorted(all_stops)]]
                ELSE files
    /\ crawl_pc' = "done"
    /\ UNCHANGED <<site, crawl_args, categories, cat_idx, bus_lines, line_idx,
                   all_stops, line_count, requests>>
    /\ UNCHANGED <<giniVars, coordVars, batchVars, np_printoptions>>

\* crawl_all_bus_stops(city, output_file) is called on some site.
CrawlInit ==
    /\ GiniIdle
    /\ CoordIdle
    /\ BatchIdle
    /\ EnvIdle
    /\ site \in Sites
    /\ crawl_args \in [city : {"wuhan"}, output_file : OutputFiles]
    /\ crawl_pc = "categories"
    /\ categories = <<>>
    /\ cat_idx = 0
    /\ bus_lines = <<>>
    /\ line_idx = 0
    /\ all_stops = {}
    /\ line_count = 0
    /\ requests = <<>>

CrawlNext ==
    \/ GetBusCategories
    \/ GetBusCategoriesRaises
    \/ GetBusLines
    \/ GetBusLinesRaises
    \/ GetBusStopsFromLine
    \/ SaveStops

CrawlSpec == CrawlInit /\ [][CrawlNext]_vars

\* The lines of the first n categories of the site, in order.
RECURSIVE LinesOf(_)
LinesOf(n) == IF n = 0 THEN <<>> ELSE LinesOf(n - 1) \o site.categories[n].lines
SiteLines == LinesOf(Len(site.categories))
Urls(lines) == [k \in 1..Len(lines) |-> lines[k].url]
\* The stops of the lines whose page was fetched.
FetchedStops(lines) ==
    UNION {lines[k].stops : k \in {j \in 1..Len(lines) : lines[j].ok}}
SiteFails ==
    \/ ~site.ok
    \/ \E c \in 1..Len(site.categories) : ~site.categories[c].ok
NoOutputFile == \A path \in DOMAIN files : ~files[path].exists

\* C30: a failure while fetching one line's stops contributes the empty set
\* and the crawl goes on: the set returned is the union of the stops of the
\* lines fetched, and every line of every category was requested exactly
\* once, in order. A failure while fetching the categories or the lines of a
\* category ends the crawl with an exception, and no output file is written.
\* The crawl stops nowhere but at its return or at the exception.
C30_FailureIsolation ==
    /\ crawl_pc = "done" =>
          /\ ~SiteFails
          /\ all_stops = FetchedStops(SiteLines)
          /\ requests = Urls(SiteLines)
          /\ line_count = Len(SiteLines)
    /\ crawl_pc \in {"lines", "stops"} =>
          /\ requests = Urls(SubSeq(SiteLines, 1, Len(requests)))
          /\ all_stops = FetchedStops(SubSeq(SiteLines, 1, Len(requests)))
    /\ SiteFails => crawl_pc # "done" /\ NoOutputFile
    /\ crawl_pc = "raised" => SiteFails /\ NoOutputFile
    /\ crawl_pc \notin {"done", "raised"} => ENABLED CrawlNext

\* The crawl returned although the page of a line failed, with the stops of
\* a line after it, and wrote its output file.
C30_Witness ==
    /\ crawl_pc = "done"
    /\ \E j, k \in 1..Len(SiteLines) :
          /\ j < k
          /\ ~SiteLines[j].ok
          /\ SiteLines[k].ok
          /\ SiteLines[k].stops \subseteq all_stops
          /\ ~(SiteLines[j].stops \subseteq all_stops)
    /\ files["stops.txt"] = [exists |-> TRUE, lines |-> sorted(all_stops)]

\* The crawl was ended by the lines of the second category after the lines of
\* the first were fetched.
C30_Aborted ==
    /\ crawl_pc = "raised"
    /\ requests # <<>>
    /\ crawl_args.output_file # ""

-----------------------------------------------------------------------------
\* Threads: an equity thread that builds a GiniCalculator and runs the three
\* operations on its units, a thread in batch_convert_gcj02_to_wgs84 on its
\* frame, and a thread that converts one point. Every step of one thread can
\* fall between two steps of the others.

\* np.set_printoptions(suppress=True) (gini.py:22).
set_printoptions(options) == [options EXCEPT !.suppress = TRUE]

\* GiniCalculator() (gini.py:20-22): the constructor sets numpy's print
\* options, which belong to the process.
NewGiniCalculator ==
    /\ pc = "new"
    /\ np_printoptions' = set_printoptions(np_printoptions)
    /\ pc' = "stats"
    /\ UNCHANGED <<data, basic_stats, summary_table, gini_coefficient, gini_results>>
    /\ UNCHANGED <<report_call, storage, coordVars, batchVars, files, crawlVars>>

\* converter.gcj02_to_wgs84(lng, lat) in a thread of its own.
ThreadGcj02ToWgs84(self, lng, lat) ==
    /\ calls = <<>>
    /\ calls' = Append(calls, CallRecord(self, "gcj02_to_wgs84", <<lng, lat>>,
                                         gcj02_to_wgs84(lng, lat)))
    /\ class_attrs' = AttrsAfterCall(class_attrs)
    /\ UNCHANGED <<giniVars, batchVars, envVars, crawlVars>>

ThreadTables == Tables(PlainRows(TextLevels), 1) \cup {test_data, equal_data, unequal_data}
ThreadCells ==
    {<<FloatCell(Fin(11640400)), FloatCell(Fin(3991500))>>,
     <<FloatCell(Fin(1000000)), FloatCell(Fin(3991500))>>,
     <<TextCell("abc"), FloatCell(Fin(3991500))>>}
ThreadFrames == [1..MaxBatch -> ThreadCells]

ThreadInit ==
    /\ data \in ThreadTables
    /\ pc = "new"
    /\ basic_stats = NoStats
    /\ summary_table = <<>>
    /\ gini_coefficient = Zero
    /\ gini_results = NoResults
    /\ report_call = NoReportCall
    /\ storage = NoStorage
    /\ CoordIdle
    /\ EnvIdle
    /\ CrawlIdle
    /\ args = [source_crs |-> "GCJ02"]
    /\ script_pc = "loop"
    /\ df \in ThreadFrames
    /\ idx = 0
    /\ wgs84_coords = <<>>
    /\ converted_count = 0
    /\ columns = <<>>

ThreadNext ==
    \/ NewGiniCalculator
    \/ CalculateBasicStats
    \/ PrepareGiniData
    \/ PrepareGiniDataRaises
    \/ CalculateGiniCoefficient
    \/ ConvertRow
    \/ AssignColumns
    \/ \E p \in SessionPoints : ThreadGcj02ToWgs84("converter", p[1], p[2])

ThreadSpec == ThreadInit /\ [][ThreadNext]_vars

\* What each thread has returned is what its operation returns on its own
\* input when nothing else runs.
ResultsAsAlone ==
    /\ pc \in {"prepare", "gini", "done"} => basic_stats = calculate_basic_stats(data)
    /\ pc \in {"gini", "done"} => summary_table = prepare_gini_data(data)
    /\ pc = "done" =>
          \E order \in Argsorts(prepare_gini_data(data)) :
              LET out == calculate_gini_coefficient(prepare_gini_data(data), order)
              IN  /\ gini_coefficient = out.gini_coefficient
                  /\ gini_results = out.results
    /\ pc = "raised" <=> (pc # "new" /\ pc # "stats" /\ pc # "prepare" /\ PrepareRaises(data))
    /\ script_pc = "done" =>
          /\ Len(columns) = Len(df)
          /\ \A i \in 1..Len(df) : OutputPair(i) = OwnPair(df[i])
          /\ converted_count = Cardinality({i \in 1..Len(df) : OwnPair(df[i]) # <<None, None>>})
    /\ \A i \in 1..Len(calls) :
          calls[i].outcome = gcj02_to_wgs84(calls[i].args[1], calls[i].args[2])
    /\ class_attrs = ClassAttrs

\* Nothing outside the arguments and the return values has been written.
NothingWrittenOutside ==
    /\ np_printoptions = [suppress |-> FALSE]
    /\ class_attrs = ClassAttrs
    /\ files = NoFiles

\* C21: with coordinate and equity operations running in threads of their
\* own on disjoint inputs, under every interleaving each invocation returns
\* what it returns alone, no operation reading or writing anything outside
\* its own arguments and return value.
C21_ConcurrencySafety ==
    /\ ResultsAsAlone
    /\ NothingWrittenOutside

\* C21, the results alone: under every interleaving each invocation returns
\* what it returns alone.
C21_ResultsAsAlone == ResultsAsAlone

\* Reached: the three threads have returned, the equity thread on the test
\* table and the batch with a row that was corrected.
C21_AllReturned ==
    /\ pc = "done"
    /\ script_pc = "done"
    /\ Len(calls) = 1
    /\ data = test_data
    /\ \E i \in 1..Len(df) : OwnPair(df[i]) # <<None, None>> /\ OwnPair(df[i]) # <<df[i][1].f, df[i][2].f>>

====
